---- MODULE Spec2Model ----
(***************************************************************************)
(* Verification model of print_raster: the packbits-style raster codec     *)
(* (CompressedRasterDecoder / CompressedRasterEncoder), the passthrough     *)
(* decoder, and the streaming page reader / writer built on top of them.    *)
(*                                                                          *)
(* Conventions                                                              *)
(*  - a byte is an integer 0..255; a buffer is a sequence of bytes; the     *)
(*    Rust 0-based half-open range buf[a..b] is Slice(buf, a, b - a).       *)
(*  - a transport is a byte sequence plus a cursor (read side) or a byte    *)
(*    sequence that grows (write side).  One poll of the transport either   *)
(*    returns Pending or transfers between 1 and `cap` bytes; a read at     *)
(*    the end of the data returns 0.                                        *)
(*  - one poll_read / poll_write call is one evaluation of the recursive    *)
(*    operators below; the behaviour of the transport during that call is   *)
(*    the script sc = [pend |-> p, cap |-> c]: the p-th transport poll of   *)
(*    the call returns Pending (p = 0: none does) and every other poll      *)
(*    transfers at most c bytes (c = 0: the transport never splits).        *)
(*  - an index or slice outside its buffer, which panics in Rust, makes     *)
(*    the call return res = "Panic".                                        *)
(***************************************************************************)
EXTENDS Integers, Sequences, FiniteSets, TLC

VARIABLES
    dec,    \* a decoder under test: the decoder, its transport, its caller
    enc,    \* an encoder under test: the encoder, its transport, its caller
    rdr,    \* a page reader and the file it reads
    wtr,    \* a page writer and the file it writes
    ctor    \* a constructor call and its result

vars == <<dec, enc, rdr, wtr, ctor>>

\* the value of a variable that a specification does not use (yet)
Idle == [status |-> "idle"]

\* ------------------------------------------------------------------------
\* Bounds of the model (not program constants)
\* ------------------------------------------------------------------------
MaxIn == 4          \* longest adversarial encoded input fed to the decoder
MaxBuf == 2         \* callers pass buffers of 1..MaxBuf bytes, or ScratchLen
MaxPend == 2        \* a call's script may make its 1st..MaxPend-th poll pend
MaxCap == 1         \* restricted transports move 1..MaxCap bytes per poll

\* ------------------------------------------------------------------------
\* Program constants
\* ------------------------------------------------------------------------
ScratchLen == 4096  \* RasterDecoderConsumer.buf, roundtrip buffer

\* ------------------------------------------------------------------------
\* Generic helpers
\* ------------------------------------------------------------------------
Min(a, b) == IF a < b THEN a ELSE b

SatSub(a, b) == IF a > b THEN a - b ELSE 0

Slice(buf, start, n) == SubSeq(buf, start + 1, start + n)

WriteAt(buf, start, bytes) ==
    [i \in 1..Len(buf) |->
        IF i > start /\ i <= start + Len(bytes) THEN bytes[i - start] ELSE buf[i]]

Fill(buf, start, byte) ==
    [i \in 1..Len(buf) |-> IF i > start THEN byte ELSE buf[i]]

RepeatChunk(chunk, k) ==
    [i \in 1..(k * Len(chunk)) |-> chunk[((i - 1) % Len(chunk)) + 1]]

IsPrefix(s, t) == Len(s) <= Len(t) /\ s = SubSeq(t, 1, Len(s))

\* the unrestricted transport: never Pending, never a short transfer
NoPend == [pend |-> 0, cap |-> 0]

Scripts == [pend : 0..MaxPend, cap : 0..MaxCap]

\* number of bytes one Ready poll moves when n are requested and avail exist
Transfer(n, avail, sc) ==
    IF sc.cap = 0 THEN Min(n, avail) ELSE Min(Min(n, avail), sc.cap)

\* ------------------------------------------------------------------------
\* decode/limits.rs, decode/compressed.rs : construction
\* ------------------------------------------------------------------------
U64Max == 2147483647    \* u64::MAX, the largest value of the model's integers

NO_LIMITS == [bytes_per_line |-> U64Max, bytes_per_page |-> U64Max]

\* the decoder of a failed construction; never polled
NoDecoder ==
    [chunk_size |-> 0, bytes_per_line |-> 0, fill_byte |-> 0,
     line_buffer |-> <<>>, line_repeat |-> 0, state |-> "Begin",
     start |-> 0, remaining |-> 0, repeat_last |-> 0, bytes_remaining |-> 0]

\* a limit check that looks at the line only
DecoderLimitError_LineOnly(limits, bytes_per_line, num_bytes) == bytes_per_line > limits.bytes_per_line

\* limit checks of CompressedRasterDecoder::new (first two ifs)
DecoderLimitError(limits, bytes_per_line, num_bytes) ==
    bytes_per_line > limits.bytes_per_line \/ num_bytes > limits.bytes_per_page

\* the layout checks of CompressedRasterDecoder::new
LayoutError(chunk_size, bytes_per_line, num_bytes) ==
    \/ (bytes_per_line # 0 /\ (chunk_size = 0 \/ bytes_per_line % chunk_size # 0))
    \/ (num_bytes # 0 /\ (bytes_per_line = 0 \/ num_bytes % bytes_per_line # 0))

\* line_buffer is allocated with set_len and no initialisation: its first
\* content is whatever the allocator returns, here `garbage` in every cell
UninitBuffer(size, garbage) == [i \in 1..size |-> garbage]

\* mem = FALSE: try_reserve fails (allocation error)
CompressedRasterDecoderNew(limits, chunk_size, bytes_per_line, num_bytes, fill_byte, garbage, mem) ==
    IF DecoderLimitError(limits, bytes_per_line, num_bytes)
    THEN [err |-> "InvalidData", dec |-> NoDecoder]
    ELSE IF LayoutError(chunk_size, bytes_per_line, num_bytes)
    THEN [err |-> "InvalidData", dec |-> NoDecoder]
    ELSE IF ~mem
    THEN [err |-> "OutOfMemory", dec |-> NoDecoder]
    ELSE [err |-> "none",
          dec |-> [chunk_size |-> chunk_size,
                   bytes_per_line |-> bytes_per_line,
                   fill_byte |-> fill_byte,
                   line_buffer |->
                       UninitBuffer(Min(bytes_per_line, num_bytes), garbage),
                   line_repeat |-> 0,
                   state |-> "Begin",
                   start |-> 0, remaining |-> 0, repeat_last |-> 0,
                   bytes_remaining |-> num_bytes]]

\* ------------------------------------------------------------------------
\* decode/compressed.rs : poll_read
\* ------------------------------------------------------------------------
\* a return that leaves the count of the bytes to come as it was
Accounted_NotCounted(d, total_read) == d

\* a count that is never brought down to 0
Accounted_Stalled(d, total_read) ==
    [d EXCEPT !.bytes_remaining = IF @ > total_read THEN @ - total_read ELSE @]

\* `*this.bytes_remaining = this.bytes_remaining.saturating_sub(total_read)`
\* before every Ready(Ok(total_read))
Accounted(d, total_read) ==
    [d EXCEPT !.bytes_remaining = SatSub(@, total_read)]

\* results of one poll_read call
DecPending(c) ==
    [k |-> "done", polls |-> c.polls, eof |-> FALSE, dec |-> c.d, pos |-> c.pos, res |-> "Pending", n |-> 0,
     err |-> "none", bytes |-> <<>>, dropped |-> Len(c.got),
     held |-> c.held, room |-> c.room]

DecReady(c) ==
    [k |-> "done", polls |-> c.polls, eof |-> FALSE, dec |-> Accounted(c.d, Len(c.got)),
     pos |-> c.pos, res |-> "Ok", n |-> Len(c.got),
     err |-> "none", bytes |-> c.got, dropped |-> 0,
     held |-> c.held, room |-> c.room]

DecError(c, kind) ==
    [k |-> "done", polls |-> c.polls, eof |-> FALSE, dec |-> c.d, pos |-> c.pos, res |-> "Err", n |-> 0,
     err |-> kind, bytes |-> <<>>, dropped |-> Len(c.got),
     held |-> c.held, room |-> c.room]

DecPanic(c) ==
    [k |-> "done", polls |-> c.polls, eof |-> FALSE, dec |-> c.d, pos |-> c.pos, res |-> "Panic", n |-> 0,
     err |-> "panic", bytes |-> <<>>, dropped |-> Len(c.got),
     held |-> c.held, room |-> c.room]

\* the loop never returns
DecHang(c) ==
    [k |-> "done", polls |-> c.polls, eof |-> FALSE, dec |-> c.d,
     pos |-> c.pos, res |-> "Hang", n |-> 0,
     err |-> "hang", bytes |-> <<>>, dropped |-> Len(c.got),
     held |-> c.held, room |-> c.room]

\* the result of a call in which the transport returned 0 bytes
AtEof(r) == [r EXCEPT !.eof = TRUE, !.polls = @ + 1]

\* an end of input before a block header that ends the data like the end
\* before a line group
BlockHeaderEof_IsCleanEnd(c) == AtEof(DecReady(c))

\* state BeginInlineBlock, the transport returned 0 bytes: "unexpected eof
\* while reading block header"
BlockHeaderEof(c) == AtEof(DecError(c, "UnexpectedEof"))

\* an end of input inside a block payload that returns what the call has
BlockContentEof_ReturnsCount(c) == AtEof(DecReady(c))

\* state ReadInlineBlock, the transport returned 0 bytes: "unexpected eof
\* while reading block content"
BlockContentEof(c) == AtEof(DecError(c, "UnexpectedEof"))

\* a bounds check that forgets the cursor
BlockFits_IgnoresCursor(line_len, start, extent) == ~(line_len < extent)

\* the bounds check of a block header: the block fits the rest of the line
BlockFits(line_len, start, extent) == ~((line_len - start) < extent)

\* an extent that takes `!code + 1` chunks for a literal block
BlockExtent_LiteralShort(code, chunk_size) ==
    IF code <= 127 THEN (code + 1) * chunk_size
    ELSE ((255 - code) + 1) * chunk_size

\* decoded extent of a block whose header byte is code (0x80 excluded)
BlockExtent(code, chunk_size) ==
    IF code <= 127 THEN (code + 1) * chunk_size
    ELSE ((255 - code) + 2) * chunk_size

\* a suspension that forgets how far the payload was read
ReadBlockPartial_LostCursor(d, n) ==
    [d EXCEPT !.remaining = @ - n]

\* the state kept when a block payload read ends before the block does
ReadBlockPartial(d, n) ==
    [d EXCEPT !.start = @ + n, !.remaining = @ - n]

\* a fill that whitens the whole line
FillToEnd_WholeLine(line_buffer, start, fill_byte) == Fill(line_buffer, 0, fill_byte)

\* `this.line_buffer[*start..].fill(*this.fill_byte)`
FillToEnd(line_buffer, start, fill_byte) == Fill(line_buffer, start, fill_byte)

\* state Begin: read the line-repeat byte
DecBegin(c, data) ==
    [c EXCEPT !.d.line_repeat = data[c.pos + 1],
              !.d.state = "BeginInlineBlock",
              !.d.start = 0, !.d.remaining = 0, !.d.repeat_last = 0,
              !.pos = @ + 1, !.polls = @ + 1]

\* state BeginInlineBlock after a header byte `code` was read and accepted
DecBeginBlock(c, code) ==
    LET d == c.d
        L == Len(d.line_buffer)
    IN  IF code <= 127
        THEN [c EXCEPT !.d.state = "ReadInlineBlock",
                       !.d.repeat_last = code,
                       !.d.remaining = d.chunk_size,
                       !.pos = @ + 1, !.polls = @ + 1]
        ELSE IF code = 128
        THEN [c EXCEPT !.d.line_buffer = FillToEnd(@, d.start, d.fill_byte),
                       !.d.state = "UseBuffer",
                       !.d.repeat_last = 0,
                       !.d.remaining = L - d.start,
                       !.pos = @ + 1, !.polls = @ + 1]
        ELSE [c EXCEPT !.d.state = "ReadInlineBlock",
                       !.d.repeat_last = 0,
                       !.d.remaining = BlockExtent(code, d.chunk_size),
                       !.pos = @ + 1, !.polls = @ + 1]

\* a finished block of which the caller gets what fits the buffer and no more
Staged_Dropped(n_available, read) == 0

\* the bytes of a finished block kept for the next calls,
\* `remaining: n_available - read` of UseBuffer
Staged(n_available, read) == n_available - read

\* state ReadInlineBlock, block finished by a read of n bytes at start_cur:
\* synthesise the repeated chunks, copy what fits to the caller, stage the rest
DecBlockFinished(c, lb, start_cur, n) ==
    LET d == c.d
        cs == d.chunk_size
        start == start_cur + n
        n_available == n + d.repeat_last * cs
        last_pixel == Slice(lb, start - cs, cs)
        lb2 == IF d.repeat_last # 0
               THEN WriteAt(lb, start, RepeatChunk(last_pixel, d.repeat_last))
               ELSE lb
        read == Min(c.room, n_available)
    IN  [c EXCEPT !.d.line_buffer = lb2,
                  !.d.state = "UseBuffer",
                  !.d.start = start_cur + read,
                  !.d.remaining = Staged(n_available, read),
                  !.d.repeat_last = 0,
                  !.got = @ \o Slice(lb2, start_cur, read),
                  !.room = @ - read,
                  !.pos = @ + n, !.polls = @ + 1]

\* the loop of poll_read goes on with a new context
Go(c) == [k |-> "go", c |-> c]

\* `reader.as_mut().poll_read(...)` was called: held keeps the largest count
\* of bytes already copied for the caller at such a call
Polled(c) == [c EXCEPT !.held = IF Len(c.got) > @ THEN Len(c.got) ELSE @]

\* a decoder that goes on to the next block or line with bytes in hand
HandOver_WaitsForMore(total_read) == FALSE

\* `if total_read != 0 { ... return Poll::Ready(Ok(total_read)); }` at the
\* end of a block and at the end of a line
HandOver(total_read) == total_read # 0

\* one turn of the loop of poll_read: the match on the decoder's state
DecStep(c, data, sc) ==
    LET d == c.d
        L == Len(d.line_buffer)
        cs == d.chunk_size
        avail == Len(data) - c.pos
        pending == (sc.pend = c.polls + 1)
        p == Polled(c)
    IN
    CASE d.state = "Begin" ->
           IF pending THEN DecPending(p)
           ELSE IF avail = 0 THEN AtEof(DecReady(p))
           ELSE Go(DecBegin(p, data))
      [] d.state = "BeginInlineBlock" ->
           IF pending THEN DecPending(p)
           ELSE IF avail = 0 THEN BlockHeaderEof(p)
           ELSE LET code == data[c.pos + 1]
                IN  IF d.start > L THEN DecPanic(p)
                    ELSE IF code # 128
                            /\ ~BlockFits(L, d.start, BlockExtent(code, cs))
                    THEN DecError([p EXCEPT !.pos = @ + 1], "InvalidData")
                    ELSE Go(DecBeginBlock(p, code))
      [] d.state = "ReadInlineBlock" ->
           LET start_cur == d.start
               n_read == Min(c.room, d.remaining)
               n == Transfer(n_read, avail, sc)
               lb == WriteAt(d.line_buffer, start_cur,
                             Slice(data, c.pos, n))
           IN  IF start_cur + n_read > L THEN DecPanic(c)
               ELSE IF pending THEN DecPending(p)
               ELSE IF n = 0 THEN BlockContentEof(p)
               ELSE IF d.remaining - n = 0
               THEN IF \/ (d.repeat_last # 0 /\ start_cur + n < cs)
                       \/ start_cur + n + d.repeat_last * cs > L
                    THEN DecPanic(p)
                    ELSE Go(DecBlockFinished(p, lb, start_cur, n))
               ELSE DecReady(
                      [p EXCEPT !.d = ReadBlockPartial(
                                         [d EXCEPT !.line_buffer = lb], n),
                                !.got = @ \o Slice(lb, start_cur, n),
                                !.pos = @ + n, !.polls = @ + 1])
      [] d.state = "UseBuffer" ->
           LET read == Min(c.room, d.remaining)
               start == d.start + read
               remaining == d.remaining - read
               c1 == [c EXCEPT !.got = @ \o Slice(d.line_buffer, d.start, read),
                               !.room = @ - read,
                               !.d.start = start,
                               !.d.remaining = remaining]
               total_read == Len(c1.got)
           IN  IF d.start + read > L THEN DecPanic(c)
               ELSE IF remaining = 0
               THEN IF start = L
                    THEN IF d.line_repeat > 0
                         THEN Go([c1 EXCEPT !.d.line_repeat = @ - 1,
                                            !.d.start = 0,
                                            !.d.remaining = L])
                         ELSE LET c2 == [c1 EXCEPT !.d.state = "Begin",
                                                   !.d.start = 0]
                              IN  IF HandOver(total_read) THEN DecReady(c2)
                                  ELSE Go(c2)
                    ELSE LET c2 == [c1 EXCEPT !.d.state = "BeginInlineBlock"]
                         IN  IF HandOver(total_read) THEN DecReady(c2)
                             ELSE Go(c2)
               ELSE DecReady(c1)

\* the loop of poll_read, turn after turn until it returns; fuel bounds the
\* number of turns
RECURSIVE DecTurns(_, _, _, _)
DecTurns(s, data, sc, fuel) ==
    IF s.k # "go" THEN s
    ELSE IF fuel <= 1 THEN DecStep(s.c, data, sc)
    ELSE LET mid == DecTurns(s, data, sc, fuel \div 2)
         IN  IF mid.k # "go" THEN mid
             ELSE DecTurns(mid, data, sc, fuel - (fuel \div 2))

\* every turn but the first of a line delivers a byte or reads one
DecFuel(c) == 4 * c.room + 8

\* the result of the loop, which runs out of turns only if it never ends
DecEnd(s) == IF s.k = "go" THEN DecHang(s.c) ELSE s

DecRun(c, data, sc) == DecEnd(DecTurns(Go(c), data, sc, DecFuel(c)))

\* a read that goes to the transport even when no byte can be delivered
NothingToRead_Never(buf_size) == FALSE

\* `if buf_size == 0 { return Poll::Ready(Ok(0)); }`
NothingToRead(buf_size) == buf_size = 0

\* the locals of one poll_read call: nothing copied yet (`total_read = 0`),
\* buf cut to buf_size bytes
DecCall(d, pos, buf_size) ==
    [d |-> d, pos |-> pos, got |-> <<>>, room |-> buf_size, polls |-> 0,
     held |-> 0]

\* a buffer used whole whatever is left of the page
BufSize_Uncut(bytes_remaining, buf_len) == buf_len

\* `let buf_size = (*this.bytes_remaining).min(buf.len() as u64) as usize`
BufSize(bytes_remaining, buf_len) == Min(bytes_remaining, buf_len)

\* CompressedRasterDecoder::poll_read with a caller buffer of buf_len bytes
\* over the transport (data, pos)
DecPollRead(d, data, pos, buf_len, sc) ==
    LET buf_size == BufSize(d.bytes_remaining, buf_len)
        c == DecCall(d, pos, buf_size)
    IN  IF NothingToRead(buf_size) THEN DecReady(c) ELSE DecRun(c, data, sc)

\* ------------------------------------------------------------------------
\* encode/compressed.rs : construction
\* ------------------------------------------------------------------------
\* Option<u8>::None of line_repeat
None == -1

NoEncoder ==
    [chunk_size |-> 0, bytes_per_line |-> 0, bytes_remaining |-> 0,
     line_buffer |-> <<>>, line_repeat |-> None, pos_in_line |-> 0,
     fstate |-> "None", ret |-> 0, f_line_repeat |-> 0, tag |-> 0,
     start |-> 0, end |-> 0]

\* layout checks that let any bytes_per_line pass
EncoderLayoutError_SkipsChunk(chunk_size, bytes_per_line, num_bytes) ==
    num_bytes # 0 /\ (bytes_per_line = 0 \/ num_bytes % bytes_per_line # 0)

\* the layout checks of CompressedRasterEncoder::new
EncoderLayoutError(chunk_size, bytes_per_line, num_bytes) ==
    \/ (bytes_per_line # 0 /\ (chunk_size = 0 \/ bytes_per_line % chunk_size # 0))
    \/ (num_bytes # 0 /\ (bytes_per_line = 0 \/ num_bytes % bytes_per_line # 0))

\* mem = FALSE: try_reserve fails (allocation error)
CompressedRasterEncoderNew(chunk_size, bytes_per_line, num_bytes, garbage, mem) ==
    IF EncoderLayoutError(chunk_size, bytes_per_line, num_bytes)
    THEN [err |-> "InvalidData", enc |-> NoEncoder]
    ELSE IF ~mem
    THEN [err |-> "OutOfMemory", enc |-> NoEncoder]
    ELSE [err |-> "none",
          enc |-> [chunk_size |-> chunk_size,
                   bytes_per_line |-> bytes_per_line,
                   bytes_remaining |-> num_bytes,
                   line_buffer |->
                       UninitBuffer(Min(bytes_per_line, num_bytes), garbage),
                   line_repeat |-> None,
                   pos_in_line |-> 0,
                   fstate |-> "None", ret |-> 0, f_line_repeat |-> 0,
                   tag |-> 0, start |-> 0, end |-> 0]]

\* ------------------------------------------------------------------------
\* encode/compressed.rs : poll_flush_line_buffer
\* ------------------------------------------------------------------------
\* line_buffer[start..].chunks(chunk_size): number of chunks and the i-th one
\* (the last chunk is shorter when the rest is not a whole number of chunks)
NumChunks(lb, start, cs) == (Len(lb) - start + cs - 1) \div cs

Chunk(lb, start, cs, i) ==
    Slice(lb, start + i * cs, Min(cs, Len(lb) - (start + i * cs)))

\* longest run and longest literal one block can hold, and the largest
\* line-repeat count (u8::MAX)
RunCap == 127
LiteralCap == 127
LineRepeatCap == 255

\* the least element of a non-empty set of numbers
First(S) == CHOOSE i \in S : \A j \in S : i <= j

\* a run block that never grows beyond its first two chunks
RunTag_NotGreedy(lb, start, cs) == 1

\* a run block that counts one chunk more than the tag may say
RunTag_CapPlusOne(lb, start, cs) ==
    LET n == NumChunks(lb, start, cs)
        Differ == {i \in 2..(n - 1) :
                     Chunk(lb, start, cs, i) # Chunk(lb, start, cs, 0)}
        stop == IF Differ = {} THEN n ELSE First(Differ)
    IN  Min(RunCap + 1, 1 + (stop - 2))

\* run block: tag starts at 1 and the loop over the chunks after the second
\* adds 1 for each chunk until one differs from the first chunk or tag has
\* reached the cap
RunTag(lb, start, cs) ==
    LET n == NumChunks(lb, start, cs)
        Differ == {i \in 2..(n - 1) :
                     Chunk(lb, start, cs, i) # Chunk(lb, start, cs, 0)}
        stop == IF Differ = {} THEN n ELSE First(Differ)
    IN  Min(RunCap, 1 + (stop - 2))

\* a literal block that goes on to the last chunk of the line, which has
\* no successor to differ from
LiteralCount_ToLineEnd(lb, start, cs) ==
    LET n == NumChunks(lb, start, cs)
        Equal == {i \in 2..(n - 1) :
                    Chunk(lb, start, cs, i) = Chunk(lb, start, cs, i - 1)}
        stop == IF Equal = {} THEN n + 1 ELSE First(Equal)
    IN  Min(LiteralCap, 1 + (stop - 2))

\* literal block: count starts at 1 and the loop over the chunks after the
\* second adds 1 for each chunk until one equals its predecessor or count has
\* reached the cap
LiteralCount(lb, start, cs) ==
    LET n == NumChunks(lb, start, cs)
        Equal == {i \in 2..(n - 1) :
                    Chunk(lb, start, cs, i) = Chunk(lb, start, cs, i - 1)}
        stop == IF Equal = {} THEN n ELSE First(Equal)
    IN  Min(LiteralCap, 1 + (stop - 2))

\* a literal tag that is one too small
LiteralTag_OffByOne(count) == ((255 - count) + 1) % 256

\* (!count).wrapping_add(2) on u8
LiteralTag(count) == ((255 - count) + 2) % 256

\* state BeginInlineBlock with at least one chunk left: choose the next block
EncChooseBlock(e) ==
    LET lb == e.line_buffer
        cs == e.chunk_size
        start == e.start
    IN  IF NumChunks(lb, start, cs) >= 2
        THEN IF Chunk(lb, start, cs, 0) = Chunk(lb, start, cs, 1)
             THEN LET tag == RunTag(lb, start, cs)
                  IN  [e EXCEPT !.fstate = "WriteInlineBlock",
                                !.tag = tag,
                                !.start = start + cs * tag,
                                !.end = start + cs * (tag + 1)]
             ELSE LET count == LiteralCount(lb, start, cs)
                  IN  [e EXCEPT !.fstate = "WriteInlineBlock",
                                !.tag = LiteralTag(count),
                                !.start = start,
                                !.end = start + cs * count]
        ELSE [e EXCEPT !.fstate = "WriteInlineBlock",
                       !.tag = 0,
                       !.start = start,
                       !.end = start + cs]

FlushResult(c, res, val, err) ==
    [k |-> "done", e |-> c.e, out |-> c.out, polls |-> c.polls,
     res |-> res, val |-> val, err |-> err]

\* one turn of the loop of poll_flush_line_buffer: the match on the state
EncFlushStep(c, sc) ==
    LET e == c.e
        lb == e.line_buffer
        cs == e.chunk_size
        pending == (sc.pend = c.polls + 1)
    IN
    CASE e.fstate = "None" -> FlushResult(c, "Ok", 0, "none")
      [] e.fstate = "Begin" ->
           IF pending THEN FlushResult(c, "Pending", 0, "none")
           ELSE Go([c EXCEPT !.out = Append(@, e.f_line_repeat),
                             !.polls = @ + 1,
                             !.e.fstate = "BeginInlineBlock",
                             !.e.f_line_repeat = 0,
                             !.e.start = 0])
      [] e.fstate = "BeginInlineBlock" ->
           IF e.start > Len(lb) \/ cs = 0 THEN FlushResult(c, "Panic", 0, "panic")
           ELSE IF NumChunks(lb, e.start, cs) = 0
           THEN FlushResult([c EXCEPT !.e.fstate = "None", !.e.ret = 0,
                                      !.e.start = 0],
                            "Ok", e.ret, "none")
           ELSE Go([c EXCEPT !.e = EncChooseBlock(e)])
      [] e.fstate = "WriteInlineBlock" ->
           IF pending THEN FlushResult(c, "Pending", 0, "none")
           ELSE Go([c EXCEPT !.out = Append(@, e.tag),
                             !.polls = @ + 1,
                             !.e.fstate = "WriteInlineBlockData",
                             !.e.tag = 0])
      [] e.fstate = "WriteInlineBlockData" ->
           LET n_written == Transfer(e.end - e.start, e.end - e.start, sc)
           IN  IF e.start > e.end \/ e.end > Len(lb)
               THEN FlushResult(c, "Panic", 0, "panic")
               ELSE IF pending THEN FlushResult(c, "Pending", 0, "none")
               ELSE IF n_written = 0
               THEN FlushResult([c EXCEPT !.polls = @ + 1],
                                "Err", 0, "WriteZero")
               ELSE IF e.start + n_written >= e.end
               THEN Go([c EXCEPT !.out = @ \o Slice(lb, e.start, n_written),
                                 !.polls = @ + 1,
                                 !.e.fstate = "BeginInlineBlock",
                                 !.e.start = e.end,
                                 !.e.end = 0])
               ELSE Go([c EXCEPT !.out = @ \o Slice(lb, e.start, n_written),
                                 !.polls = @ + 1,
                                 !.e.start = e.start + n_written])

\* the loop of poll_flush_line_buffer, turn after turn until it returns
RECURSIVE EncFlushTurns(_, _, _)
EncFlushTurns(s, sc, fuel) ==
    IF s.k # "go" THEN s
    ELSE IF fuel <= 1 THEN EncFlushStep(s.c, sc)
    ELSE LET mid == EncFlushTurns(s, sc, fuel \div 2)
         IN  IF mid.k # "go" THEN mid
             ELSE EncFlushTurns(mid, sc, fuel - (fuel \div 2))

\* a block takes at most one turn to choose it, one for its tag and one for
\* each byte of its data
EncFlushFuel(c) == 3 * Len(c.e.line_buffer) + 4

\* the result of the loop, which runs out of turns only if it never ends
EncFlushEnd(s) ==
    IF s.k = "go" THEN FlushResult(s.c, "Hang", 0, "hang") ELSE s

EncFlush(c, sc) == EncFlushEnd(EncFlushTurns(Go(c), sc, EncFlushFuel(c)))

\* ------------------------------------------------------------------------
\* encode/compressed.rs : poll_write
\* ------------------------------------------------------------------------
EncResult(c, res, n, err) ==
    [k |-> "done", e |-> c.e, out |-> c.out, res |-> res, n |-> n, err |-> err]

\* Poll::Ready(Ok(total_write)) with the final accounting of bytes_remaining
EncReady(c, total_write) ==
    EncResult([c EXCEPT !.e.bytes_remaining = SatSub(@, total_write)],
              "Ok", total_write, "none")

\* arm the flush of the stored line: FlushLineBufferState::Begin { ret, line_repeat }
ArmFlush(e, ret, line_repeat) ==
    [e EXCEPT !.fstate = "Begin", !.ret = ret, !.f_line_repeat = line_repeat]

\* the loop of poll_write goes on; the rest of the caller's buffer, buf in the
\* code, is the part of the offered bytes after the first off
GoOn(c, off, total_write) ==
    Go([e |-> c.e, out |-> c.out, polls |-> c.polls,
        off |-> off, total_write |-> total_write])

\* the loop after the flush returned f: on if it was Ready(Ok(ret))
EncFlushed(f, off) ==
    IF f.res = "Ok" THEN GoOn(f, off, f.val)
    ELSE EncResult(f, f.res, 0, f.err)

\* the flush armed inside the loop: ready!(poll_flush_line_buffer(..))?
EncFlushThen(c, off, sc) ==
    EncFlushed(EncFlush([e |-> c.e, out |-> c.out, polls |-> c.polls], sc), off)

\* a comparison that starts at the head of the withheld line wherever the
\* line being compared has got to
DiffPos_FromLineStart(offered, off, lb, pos, n) ==
    LET D == {i \in 0..(n - 1) : offered[off + i + 1] # lb[i + 1]}
    IN  IF D = {} THEN None ELSE First(D)

\* position of the first of the n bytes after off that differs from
\* line_buffer[pos..]
DiffPos(offered, off, lb, pos, n) ==
    LET D == {i \in 0..(n - 1) : offered[off + i + 1] # lb[pos + i + 1]}
    IN  IF D = {} THEN None ELSE First(D)

\* copy_from_slice of the n bytes after off to line_buffer[pos..]
CopyIn(lb, pos, offered, off, n) ==
    [i \in 1..Len(lb) |->
        IF i > pos /\ i <= pos + n THEN offered[off + (i - pos)] ELSE lb[i]]

\* a flush one repeat before the line-repeat byte is full
FlushLineBuffer_OneShort(line_repeat, total_write, bytes_remaining) ==
    (line_repeat + 1) = LineRepeatCap - 1 \/ total_write >= bytes_remaining

\* `(line_repeat + 1) == u8::MAX || total_write as u64 >= *this.bytes_remaining`
FlushLineBuffer(line_repeat, total_write, bytes_remaining) ==
    (line_repeat + 1) = LineRepeatCap \/ total_write >= bytes_remaining

\* a first line of a group that is kept back although the page ends with it
LastLineNow_Withheld(total_write, bytes_remaining) == FALSE

\* "flush immediately if all bytes are written": the line that has just
\* filled line_buffer is the last of the page,
\* `total_write as u64 >= *this.bytes_remaining`
LastLineNow(total_write, bytes_remaining) == total_write >= bytes_remaining


\* one turn of `while !buf.is_empty()`
EncLoopStep(c, offered, sc) ==
    LET e == c.e
        buf_len == Len(offered) - c.off
        total_write == c.total_write
        lb == e.line_buffer
        pos == e.pos_in_line
        bytes_to_write == Min(buf_len, Len(lb) - pos)
        rest == c.off + bytes_to_write
        tw == total_write + bytes_to_write
    IN
    IF buf_len = 0 THEN EncReady(c, total_write)
    ELSE IF pos > Len(lb) THEN EncResult(c, "Panic", 0, "panic")
    ELSE IF e.line_repeat = None
    THEN LET e1 == [e EXCEPT !.line_buffer =
                                 CopyIn(lb, pos, offered, c.off, bytes_to_write),
                             !.pos_in_line = pos + bytes_to_write]
         IN  IF e1.pos_in_line = Len(lb)
             THEN IF LastLineNow(tw, e.bytes_remaining)
                  THEN EncFlushThen(
                           [c EXCEPT !.e = ArmFlush([e1 EXCEPT !.pos_in_line = 0],
                                                    tw, 0)],
                           rest, sc)
                  ELSE GoOn([c EXCEPT !.e = [e1 EXCEPT !.pos_in_line = 0,
                                                       !.line_repeat = 0]],
                            rest, tw)
             ELSE GoOn([c EXCEPT !.e = e1], rest, tw)
    ELSE LET diff_pos == DiffPos(offered, c.off, lb, pos, bytes_to_write)
             line_repeat == e.line_repeat
         IN  IF diff_pos # None
             THEN EncFlushThen(
                      [c EXCEPT !.e = ArmFlush(
                                    [e EXCEPT !.line_repeat = None,
                                              !.pos_in_line = pos + diff_pos],
                                    total_write + diff_pos, line_repeat)],
                      c.off + diff_pos, sc)
             ELSE IF pos + bytes_to_write = Len(lb)
             THEN IF FlushLineBuffer(line_repeat, tw, e.bytes_remaining)
                  THEN EncFlushThen(
                           [c EXCEPT !.e = ArmFlush(
                                         [e EXCEPT !.pos_in_line = 0,
                                                   !.line_repeat = None],
                                         tw, line_repeat + 1)],
                           rest, sc)
                  ELSE GoOn([c EXCEPT !.e = [e EXCEPT
                                                 !.pos_in_line = 0,
                                                 !.line_repeat = line_repeat + 1]],
                            rest, tw)
             ELSE GoOn([c EXCEPT !.e.pos_in_line = pos + bytes_to_write],
                       rest, tw)

\* the loop of poll_write, turn after turn until it returns
RECURSIVE EncLoopTurns(_, _, _, _)
EncLoopTurns(s, offered, sc, fuel) ==
    IF s.k # "go" THEN s
    ELSE IF fuel <= 1 THEN EncLoopStep(s.c, offered, sc)
    ELSE LET mid == EncLoopTurns(s, offered, sc, fuel \div 2)
         IN  IF mid.k # "go" THEN mid
             ELSE EncLoopTurns(mid, offered, sc, fuel - (fuel \div 2))

\* a turn takes a byte of the buffer, or ends a run of equal lines and lets
\* the next turn take one; the last turn sees the empty buffer
EncLoopFuel(offered) == 2 * Len(offered) + 2

\* the result of the loop, which runs out of turns only if it never ends
EncLoopEnd(s) ==
    IF s.k = "go" THEN EncResult(s.c, "Hang", 0, "hang") ELSE s

EncLoop(c, offered, off, total_write, sc) ==
    EncLoopEnd(EncLoopTurns(GoOn(c, off, total_write), offered, sc,
                            EncLoopFuel(offered)))

\* a resumed flush that forgets how much of the caller's buffer was taken
ResumedCount_Forgotten(f) == 0

\* total_write after a resumed flush: the ret stored when the flush was armed
ResumedCount(f) == f.val

\* poll_write after the flush it resumed returned f: `buf = &buf[ret..]`
EncResumed(f, buf, sc) ==
    IF f.res # "Ok" THEN EncResult(f, f.res, 0, f.err)
    ELSE IF ResumedCount(f) > Len(buf) THEN EncResult(f, "Panic", 0, "panic")
    ELSE EncLoop(f, buf, ResumedCount(f), ResumedCount(f), sc)

\* a buffer taken whole whatever is left of the page
EncBufLen_Whole(bytes_remaining, len) == len

\* `&buf[..(*this.bytes_remaining).min(buf.len() as u64) as usize]`
EncBufLen(bytes_remaining, len) == Min(bytes_remaining, len)

\* one call of poll_write(buf) over a transport that behaves as sc says
EncPollWrite(e, out, buf_in, sc) ==
    LET buf == SubSeq(buf_in, 1, EncBufLen(e.bytes_remaining, Len(buf_in)))
        c == [e |-> e, out |-> out, polls |-> 0]
    IN  IF e.fstate # "None" THEN EncResumed(EncFlush(c, sc), buf, sc)
        ELSE EncLoop(c, buf, 0, 0, sc)

\* a flush that writes out the line withheld for the line-repeat count
EncPollFlush_EmitsHeldLine(e, out, sc) ==
    IF e.line_repeat = None
    THEN EncResult([e |-> e, out |-> out],
                   IF sc.pend = 1 THEN "Pending" ELSE "Ok", 0, "none")
    ELSE EncResult(EncFlush([e |-> ArmFlush([e EXCEPT !.line_repeat = None],
                                            0, e.line_repeat),
                             out |-> out, polls |-> 0], NoPend),
                   "Ok", 0, "none")

\* poll_flush: `writer.as_mut().poll_flush(cx)` and nothing else; the
\* transport answers Pending or Ready(Ok(()))
EncPollFlush(e, out, sc) ==
    EncResult([e |-> e, out |-> out],
              IF sc.pend = 1 THEN "Pending" ELSE "Ok", 0, "none")

\* poll_close: `writer.as_mut().poll_close(cx)` and nothing else
EncPollClose(e, out, sc) ==
    EncResult([e |-> e, out |-> out],
              IF sc.pend = 1 THEN "Pending" ELSE "Ok", 0, "none")

\* ------------------------------------------------------------------------
\* A caller reading a decoder to the end (futures read_to_end / read loop)
\* ------------------------------------------------------------------------
\* the result of driving poll_read over an unrestricted transport with the
\* scratch buffer until it returns 0 or fails
RECURSIVE DecReadToEnd(_, _, _, _)
RECURSIVE DecReadMore(_, _, _)
DecReadToEnd(d, data, pos, sink) ==
    DecReadMore(DecPollRead(d, data, pos, ScratchLen, NoPend), data, sink)

\* after a read returned r: on, unless it was the last
DecReadMore(r, data, sink) ==
    IF r.res = "Ok" /\ r.n > 0
    THEN DecReadToEnd(r.dec, data, r.pos, sink \o r.bytes)
    ELSE [d |-> r.dec, pos |-> r.pos, sink |-> sink,
          status |-> IF r.res = "Ok" THEN "eof"
                     ELSE IF r.res = "Err" THEN "err"
                     ELSE IF r.res = "Panic" THEN "panic" ELSE "hang",
          err |-> r.err]

\* the caller's view after one poll_read call returned r
DecAfter(x, r) ==
    [x EXCEPT !.d = r.dec,
              !.pos = r.pos,
              !.sink = @ \o r.bytes,
              !.status = IF r.res = "Pending" THEN "open"
                         ELSE IF r.res = "Ok"
                         THEN (IF r.n = 0 THEN "eof" ELSE "open")
                         ELSE IF r.res = "Err" THEN "err"
                         ELSE IF r.res = "Panic" THEN "panic" ELSE "hang",
              !.err = r.err,
              !.pended = @ \/ r.res = "Pending",
              !.midblock = @ \/ r.dec.state = "ReadInlineBlock",
              !.eof = r.eof,
              !.dropped = @ \/ r.dropped > 0,
              !.waited = @ \/ r.held > 0,
              !.early = @ \/ (r.res = "Ok" /\ r.n > 0 /\ r.room > 0
                               /\ r.dec.state # "UseBuffer"),
              !.staged = @ \/ (r.res = "Ok" /\ r.dec.state = "UseBuffer"
                                /\ r.dec.remaining > 0)]

BufLens == (1..MaxBuf) \cup {ScratchLen}

\* bytes of adversarial encoded input: line-repeat counts and block headers
\* 0x00 (one chunk), 0x01 (run of two), 0x80 (fill), 0xFF (two literal chunks)
InBytes == {0, 1, 128, 255}

RECURSIVE SeqsUpTo(_, _)
SeqsUpTo(S, n) ==
    IF n = 0 THEN {<<>>}
    ELSE LET shorter == SeqsUpTo(S, n - 1)
         IN  shorter \cup {Append(s, b) : s \in {t \in shorter : Len(t) = n - 1}, b \in S}

\* (chunk_size, bytes_per_line, num_bytes, fill_byte) of the decoders under test
DecParams ==
    { [chunk_size |-> 1, bytes_per_line |-> 2, num_bytes |-> 4, fill_byte |-> 255],
      [chunk_size |-> 2, bytes_per_line |-> 4, num_bytes |-> 4, fill_byte |-> 0],
      [chunk_size |-> 1, bytes_per_line |-> 3, num_bytes |-> 6, fill_byte |-> 0] }

Garbage == {170}

NewDecoderOf(p, garbage) ==
    CompressedRasterDecoderNew(NO_LIMITS, p.chunk_size, p.bytes_per_line,
                               p.num_bytes, p.fill_byte, garbage, TRUE).dec

DecInit ==
    /\ \E p \in DecParams, data \in SeqsUpTo(InBytes, MaxIn), g \in Garbage :
          dec = [d |-> NewDecoderOf(p, g), d0 |-> NewDecoderOf(p, g),
                 data |-> data, pos |-> 0, sink |-> <<>>,
                 status |-> "open", err |-> "none",
                 pended |-> FALSE, midblock |-> FALSE, dropped |-> FALSE, waited |-> FALSE, early |-> FALSE, staged |-> FALSE,
                 eof |-> FALSE]
    /\ enc = Idle /\ rdr = Idle /\ wtr = Idle /\ ctor = Idle

\* the caller polls read with a buffer of b bytes; the transport follows sc
DecRead(b, sc) ==
    /\ dec.status = "open"
    /\ dec' = DecAfter(dec, DecPollRead(dec.d, dec.data, dec.pos, b, sc))
    /\ UNCHANGED <<enc, rdr, wtr, ctor>>

DecNext == \E b \in BufLens, sc \in Scripts : DecRead(b, sc)

SpecDec == DecInit /\ [][DecNext]_vars

\* ------------------------------------------------------------------------
\* Properties of the decoder (SpecDec)
\* ------------------------------------------------------------------------
\* the same input read over the unrestricted transport
DecReference == DecReadToEnd(dec.d0, dec.data, 0, <<>>)

\* C2: decoder partial-I/O resumability.  Whatever Pending results and
\* one-byte transfers the transport produces and whatever buffers the caller
\* passes, the bytes delivered so far are a prefix of those delivered over
\* the unrestricted transport, no byte copied for the caller is dropped, and
\* when the reading ends the delivered bytes, the transport cursor, the
\* decoder (bytes_remaining included) and the error outcome are the same.
DecoderResumable ==
    LET ref == DecReference
    IN  /\ IsPrefix(dec.sink, ref.sink)
        /\ dec.pos <= ref.pos
        /\ ~dec.dropped
        /\ dec.status # "open" =>
              /\ dec.sink = ref.sink
              /\ dec.pos = ref.pos
              /\ dec.status = ref.status
              /\ dec.err = ref.err
              /\ dec.d = ref.d

\* C2 witness: a page decoded to its last byte although some poll returned
\* Pending and the payload of a block arrived split over several reads
DecoderResumedToEnd ==
    /\ dec.status = "eof"
    /\ dec.pended
    /\ dec.midblock
    /\ dec.d.bytes_remaining = 0
    /\ dec.pos > 3

\* the block header the decoder is about to read overruns the line
OverrunAhead ==
    /\ dec.status = "open"
    /\ dec.d.state = "BeginInlineBlock"
    /\ dec.pos < Len(dec.data)
    /\ dec.data[dec.pos + 1] # 128
    /\ BlockExtent(dec.data[dec.pos + 1], dec.d.chunk_size)
          > Len(dec.d.line_buffer) - dec.d.start

\* C4: decoder bounds safety.  No call panics on an out-of-range access; in
\* every state cursor + remaining + pending synthesised copies stays within
\* the line buffer; an InvalidData failure names an overrunning block header;
\* and a call that consumes an overrunning block header fails with
\* InvalidData and leaves the line buffer and the delivered bytes untouched.
DecoderBoundsSafe ==
    /\ [](LET d == dec.d
              L == Len(d.line_buffer)
          IN  /\ dec.status # "panic"
              /\ d.state = "BeginInlineBlock" => d.start < L
              /\ d.state = "ReadInlineBlock" =>
                    d.start + d.remaining + d.repeat_last * d.chunk_size <= L
              /\ d.state = "UseBuffer" => d.start + d.remaining <= L
              /\ (dec.status = "err" /\ dec.err = "InvalidData") =>
                    /\ d.state = "BeginInlineBlock"
                    /\ dec.data[dec.pos] # 128
                    /\ BlockExtent(dec.data[dec.pos], d.chunk_size) > L - d.start)
    /\ [][(OverrunAhead /\ dec'.pos > dec.pos) =>
              /\ dec'.status = "err"
              /\ dec'.err = "InvalidData"
              /\ dec'.d.line_buffer = dec.d.line_buffer
              /\ dec'.sink = dec.sink]_vars

\* C4 witness: an overrunning header met in the middle of a line was rejected
DecoderRejectedOverrun ==
    /\ dec.status = "err"
    /\ dec.err = "InvalidData"
    /\ dec.d.start > 0

\* ------------------------------------------------------------------------
\* The wire format of a compressed page, read without a decoder: line
\* groups of a line-repeat byte R and blocks that make one line; a block
\* byte 0x00..=0x7F is followed by one chunk that counts (byte + 1) times,
\* 0x80 fills the rest of the line, 0x81..=0xFF is followed by (257 - byte)
\* chunks
\* ------------------------------------------------------------------------
RefTag(p, cursor, code) == [at |-> p + 1, cursor |-> cursor, code |-> code]

\* chunks that follow a block byte, and chunks it adds to the line
RefTaken(code) == IF code <= 127 THEN 1 ELSE 257 - code

RefGiven(code) == IF code <= 127 THEN code + 1 ELSE 257 - code

\* the bytes a block adds to a line that has cursor bytes
RefBlockBytes(data, p, cs, L, fill, cursor, code) ==
    IF code = 128 THEN [i \in 1..(L - cursor) |-> fill]
    ELSE IF code <= 127 THEN RepeatChunk(Slice(data, p + 1, cs), code + 1)
    ELSE Slice(data, p + 1, RefTaken(code) * cs)

\* the blocks of one line from offset p on: ok if the line was completed
RECURSIVE RefBlocks(_, _, _, _, _, _, _)
RefBlocks(data, p, cs, L, fill, line, tags) ==
    IF Len(line) = L
    THEN [ok |-> TRUE, p |-> p, line |-> line, tags |-> tags]
    ELSE IF p >= Len(data)
    THEN [ok |-> FALSE, p |-> p, line |-> line, tags |-> tags]
    ELSE IF data[p + 1] = 128
    THEN RefBlocks(data, p + 1, cs, L, fill,
                   line \o RefBlockBytes(data, p, cs, L, fill, Len(line), 128),
                   Append(tags, RefTag(p, Len(line), 128)))
    ELSE IF \/ RefGiven(data[p + 1]) * cs > L - Len(line)
            \/ p + 1 + RefTaken(data[p + 1]) * cs > Len(data)
    THEN [ok |-> FALSE, p |-> p, line |-> line, tags |-> tags]
    ELSE RefBlocks(data, p + 1 + RefTaken(data[p + 1]) * cs, cs, L, fill,
                   line \o RefBlockBytes(data, p, cs, L, fill, Len(line),
                                         data[p + 1]),
                   Append(tags, RefTag(p, Len(line), data[p + 1])))

\* the tags of a group with the number of bytes of the groups before it and
\* its line-repeat byte
RefTagged(tags, before, R) ==
    [i \in 1..Len(tags) |->
        [at |-> tags[i].at, cursor |-> tags[i].cursor, code |-> tags[i].code,
         before |-> before, repeat |-> R]]

\* the line groups from offset p on: ok if the data ends after a whole group
RECURSIVE RefGroups(_, _, _, _, _, _, _, _)
RECURSIVE RefGroupEnd(_, _, _, _, _, _, _, _, _)
RefGroups(data, p, cs, L, fill, before, groups, tags) ==
    IF p >= Len(data)
    THEN [ok |-> TRUE, groups |-> groups, tags |-> tags]
    ELSE RefGroupEnd(data, cs, L, fill, before, groups, tags, data[p + 1],
                     RefBlocks(data, p + 1, cs, L, fill, <<>>, <<>>))

RefGroupEnd(data, cs, L, fill, before, groups, tags, R, b) ==
    IF ~b.ok
    THEN [ok |-> FALSE, groups |-> groups,
          tags |-> tags \o RefTagged(b.tags, before, R)]
    ELSE RefGroups(data, b.p, cs, L, fill, before + (R + 1) * L,
                   Append(groups, [repeat |-> R, line |-> b.line, to |-> b.p]),
                   tags \o RefTagged(b.tags, before, R))

\* the reference decoding: the line of every group, R + 1 times
RECURSIVE RefBytes(_)
RefBytes(groups) ==
    IF groups = <<>> THEN <<>>
    ELSE RepeatChunk(Head(groups).line, Head(groups).repeat + 1)
            \o RefBytes(Tail(groups))

\* the input of the decoder under test, read as the wire format
DecRef ==
    RefGroups(dec.data, 0, dec.d.chunk_size, Len(dec.d.line_buffer),
              dec.d.fill_byte, 0, <<>>, <<>>)

\* total_bytes of the decoder under test
DecTotal == dec.d0.bytes_remaining

\* C13: zero-return policy of the decoder.  A read with a non-empty buffer
\* never panics or hangs, and it returns 0 only if bytes_remaining was 0
\* (then without polling the transport) or if the decoder was in state
\* Begin and the transport reported the end of input at once: no byte of a
\* next line group was consumed and the decoder stays in state Begin.
ZeroReturnPolicy ==
    [][dec.status = "open" =>
          /\ dec'.status \in {"open", "eof", "err"}
          /\ dec'.status = "eof" =>
                \/ /\ dec.d.bytes_remaining = 0
                   /\ ~dec'.eof
                   /\ dec'.pos = dec.pos
                \/ /\ dec.d.state = "Begin"
                   /\ dec'.d.state = "Begin"
                   /\ dec'.eof
                   /\ dec.pos = Len(dec.data)
                   /\ dec'.pos = dec.pos]_vars

\* C13 witness: a read returned 0 at the end of the input between two line
\* groups while bytes were still to come
ZeroAtGroupBoundary ==
    /\ dec.status = "eof"
    /\ dec.eof
    /\ dec.d.state = "Begin"
    /\ dec.d.bytes_remaining > 0
    /\ Len(dec.sink) > 0

\* the offsets at which a line group of the input ends
RefBoundaries(ref) == {0} \cup {ref.groups[i].to : i \in 1..Len(ref.groups)}

TruncatedGroupFailsIn(ref) ==
    /\ (dec.eof /\ dec.d.state \in {"BeginInlineBlock", "ReadInlineBlock"}) =>
          /\ dec.status = "err"
          /\ dec.err = "UnexpectedEof"
          /\ ~ref.ok
    /\ dec.eof => dec.pos = Len(dec.data)
    /\ dec.status = "eof" =>
          /\ dec.pos \in RefBoundaries(ref)
          /\ dec.d.bytes_remaining > 0 => ref.ok

\* C14: the end of the input while the decoder reads a block header (state
\* BeginInlineBlock) or a block payload (state ReadInlineBlock) fails the
\* read with UnexpectedEof; a read that reports the end of the data has
\* consumed whole line groups only, and it reports it with bytes still to
\* come only if the input is a sequence of whole line groups.
TruncatedGroupFails == TruncatedGroupFailsIn(DecRef)

\* C14 witness: after one whole line group the input ended right after the
\* line-repeat byte of the next, and the read failed with UnexpectedEof
TruncatedAfterRepeat ==
    /\ dec.status = "err"
    /\ dec.err = "UnexpectedEof"
    /\ dec.eof
    /\ dec.d.state = "BeginInlineBlock"
    /\ dec.d.start = 0
    /\ Len(dec.sink) > 0

\* C15: decoder byte accounting.  After every read bytes_remaining is
\* total_bytes minus the bytes delivered so far (a read that returned
\* Pending or an error delivered nothing), and never more than total_bytes
\* bytes are delivered.
BytesAccounted ==
    /\ dec.d.bytes_remaining = DecTotal - Len(dec.sink)
    /\ Len(dec.sink) <= DecTotal
    /\ dec.status = "err" => dec.d.bytes_remaining > 0

\* C15 witness: the first line group repeats its line 255 times more, the
\* page was delivered to its last byte and repeats were left over
OverlongRepeatCut ==
    /\ dec.status = "eof"
    /\ dec.data # <<>>
    /\ dec.data[1] = 255
    /\ dec.d.line_repeat > 0
    /\ dec.d.bytes_remaining = 0
    /\ Len(dec.sink) = DecTotal

\* the bytes of a line delivered by the end of its first copy, and by the
\* end of its last
FillLineEnd(t) == t.before + Len(dec.d.line_buffer)

FillGroupEnd(t) ==
    Min(t.before + (t.repeat + 1) * Len(dec.d.line_buffer), DecTotal)

\* the block byte t, a 0x80 the decoder has consumed
FillHolds(t) ==
    (t.code = 128 /\ dec.pos >= t.at) =>
        /\ Len(dec.sink) >= t.before + t.cursor
        /\ \A j \in (t.before + t.cursor + 1)..Min(Len(dec.sink), FillLineEnd(t)) :
              dec.sink[j] = dec.d.fill_byte
        /\ dec.pos > t.at => Len(dec.sink) >= FillGroupEnd(t)
        /\ dec.pos = t.at =>
              /\ dec.status \in {"open", "eof"}
              /\ SubSeq(dec.d.line_buffer, 1, t.cursor)
                    = SubSeq(dec.sink, t.before + 1, t.before + t.cursor)
              /\ Len(dec.sink) < FillGroupEnd(t) =>
                    /\ dec.d.state = "UseBuffer"
                    /\ dec.d.start + dec.d.remaining = Len(dec.d.line_buffer)
                    /\ (Len(dec.sink) - t.before) % Len(dec.d.line_buffer)
                          = dec.d.start % Len(dec.d.line_buffer)
              /\ Len(dec.sink) = FillGroupEnd(t) =>
                    \/ dec.d.state = "Begin"
                    \/ dec.d.bytes_remaining = 0

FillsHold(ref) == \A i \in 1..Len(ref.tags) : FillHolds(ref.tags[i])

\* C16: fill invariant.  Once the decoder has read block byte 0x80 at
\* cursor position c of a line, the bytes of the line before c stay in the
\* line buffer as they were delivered, the L - c bytes that follow them in
\* the delivery are fill_byte, no read fails, no transport byte is
\* consumed before the line and its repeats are delivered, and then the
\* decoder is in state Begin.
FillInvariant == FillsHold(DecRef)

FilledAt(t) ==
    /\ t.code = 128
    /\ t.cursor > 0
    /\ t.repeat = 0
    /\ dec.pos = t.at
    /\ Len(dec.sink) = FillLineEnd(t)
    /\ dec.sink[t.before + t.cursor] # dec.d.fill_byte
    /\ dec.d.state = "Begin"

FilledIn(ref) == \E i \in 1..Len(ref.tags) : FilledAt(ref.tags[i])

\* C16 witness: a 0x80 read after a block of another byte than fill_byte,
\* and the line delivered to its end
FilledAfterPrefix == FilledIn(DecRef)

\* the delivery against the reference decoding `bytes` of a well-formed
\* input
MatchesBytes(bytes) ==
    /\ dec.status \in {"open", "eof"}
    /\ IsPrefix(dec.sink, bytes)
    /\ dec.status = "eof" =>
          /\ dec.sink = SubSeq(bytes, 1, Min(Len(bytes), DecTotal))
          /\ Len(bytes) <= DecTotal => dec.pos = Len(dec.data)

\* the transport cursor against the block bytes of a well-formed input
MatchesTags(ref) ==
    /\ dec.d.state = "Begin" => dec.pos \in RefBoundaries(ref)
    /\ (dec.d.state = "BeginInlineBlock" /\ dec.pos < Len(dec.data)) =>
          \E i \in 1..Len(ref.tags) :
             /\ ref.tags[i].at = dec.pos + 1
             /\ ref.tags[i].cursor = dec.d.start

MatchesRef(ref) ==
    ref.ok => (MatchesTags(ref) /\ MatchesBytes(RefBytes(ref.groups)))

\* C17: decoder wire semantics.  For an input that is a sequence of whole
\* line groups no read fails, the delivered bytes are a prefix of the
\* reference decoding and, when the reading ends, its first total_bytes
\* bytes; the decoder expects a block byte exactly where the reference
\* has one, so a byte 0x00..=0x7F consumed one chunk and a byte
\* 0x81..=0xFF consumed 257 - byte chunks.
MatchesReference == MatchesRef(DecRef)

\* C17 witness: a line of two literal chunks under block byte 0xFF, sent
\* once and delivered twice for its line-repeat byte 1
ReferenceMatched ==
    /\ dec.status = "eof"
    /\ Len(dec.data) = 4
    /\ dec.data[1] = 1
    /\ dec.data[2] = 255
    /\ dec.data[3] # dec.data[4]
    /\ Len(dec.sink) = 4
    /\ dec.pos = 4

\* ------------------------------------------------------------------------
\* A caller writing a page through the encoder, closing it, and reading
\* the written bytes back (print_raster_fuzz/src/bin/fuzz_compress.rs)
\* ------------------------------------------------------------------------
NewEncoderOf(p, num_bytes, garbage) ==
    CompressedRasterEncoderNew(p.chunk_size, p.bytes_per_line, num_bytes,
                               garbage, TRUE).enc

\* write_all over the unrestricted transport
RECURSIVE EncWriteAll(_, _, _, _)
RECURSIVE EncWriteMore(_, _, _)
EncWriteAll(e, out, src, written) ==
    IF written = Len(src)
    THEN [e |-> e, out |-> out, written |-> written, status |-> "done"]
    ELSE EncWriteMore(EncPollWrite(e, out, SubSeq(src, written + 1, Len(src)),
                                   NoPend),
                      src, written)

\* after a write returned r: on with the rest, unless it failed or took
\* nothing (WriteZero)
EncWriteMore(r, src, written) ==
    IF r.res = "Ok" /\ r.n > 0
    THEN EncWriteAll(r.e, r.out, src, written + r.n)
    ELSE [e |-> r.e, out |-> r.out, written |-> written,
          status |-> IF r.res = "Ok" THEN "err" ELSE r.res]

\* the caller's view after one poll_write that was offered len bytes
EncAfter(x, len, r) ==
    [x EXCEPT !.e = r.e,
              !.out = r.out,
              !.written = IF r.res = "Ok" THEN @ + r.n ELSE @,
              !.offered = IF r.res = "Pending" THEN len ELSE 0,
              !.status = IF r.res = "Pending" THEN "writing"
                         ELSE IF r.res = "Ok"
                         THEN (IF r.n = 0 THEN "err" ELSE "writing")
                         ELSE IF r.res = "Err" THEN "err"
                         ELSE IF r.res = "Panic" THEN "panic" ELSE "hang",
              !.err = IF r.res = "Ok" /\ r.n = 0 THEN "WriteZero" ELSE r.err,
              !.pended = @ \/ (r.res = "Pending" /\ r.e.ret > 0),
              !.over = @ \/ (r.res = "Ok" /\ r.n > len)]

\* (chunk_size, bytes_per_line) of the pages written
CodecShapes ==
    { [chunk_size |-> 1, bytes_per_line |-> 1],
      [chunk_size |-> 1, bytes_per_line |-> 2],
      [chunk_size |-> 2, bytes_per_line |-> 2],
      [chunk_size |-> 2, bytes_per_line |-> 4],
      [chunk_size |-> 1, bytes_per_line |-> 3] }

\* pixel bytes: two values are enough to make chunks and lines equal or not
SrcBytes == {0, 128}

MaxSrc == 5

Const(n, b) == [i \in 1..n |-> b]
Alternating(n, a, b) == [i \in 1..n |-> IF i % 2 = 1 THEN a ELSE b]

\* the block byte that fills the rest of a line
FillOpcode == 128

\* pages that reach the caps of the format: a run longer than one run block
\* holds, a literal longer than one literal block holds, more equal lines
\* than one line-repeat byte counts, and the equal lines whose line-repeat
\* byte is 0x80
LongPages ==
    { [chunk_size |-> 1, bytes_per_line |-> RunCap + 3,
       src |-> Const(RunCap + 3, 128)],
      [chunk_size |-> 1, bytes_per_line |-> LiteralCap + 3,
       src |-> Alternating(LiteralCap + 3, 0, 128)],
      [chunk_size |-> 1, bytes_per_line |-> 1,
       src |-> Const(LineRepeatCap + 3, 128)],
      [chunk_size |-> 1, bytes_per_line |-> 1,
       src |-> Const(FillOpcode + 1, 128)] }

\* the pages of a shape: every byte sequence of a whole number of lines
PagesOf(p) ==
    { [chunk_size |-> p.chunk_size, bytes_per_line |-> p.bytes_per_line,
       src |-> s] :
         s \in {t \in SeqsUpTo(SrcBytes, MaxSrc) : Len(t) % p.bytes_per_line = 0} }

Pages == UNION {PagesOf(p) : p \in CodecShapes} \cup LongPages

CodecInit ==
    /\ \E p \in Pages, g \in Garbage :
          enc = [e |-> NewEncoderOf(p, Len(p.src), g),
                 e0 |-> NewEncoderOf(p, Len(p.src), g),
                 chunk_size |-> p.chunk_size,
                 bytes_per_line |-> p.bytes_per_line,
                 src |-> p.src, written |-> 0, out |-> <<>>,
                 offered |-> 0, status |-> "writing", err |-> "none",
                 pended |-> FALSE, over |-> FALSE]
    /\ dec = Idle /\ rdr = Idle /\ wtr = Idle /\ ctor = Idle

\* the caller offers the next len bytes of the page; after Pending it offers
\* the same bytes again
EncWrite(len, sc) ==
    /\ enc.status = "writing"
    /\ enc.written < Len(enc.src)
    /\ len <= Len(enc.src) - enc.written
    /\ enc.offered # 0 => len = enc.offered
    /\ enc' = EncAfter(enc, len,
                 EncPollWrite(enc.e, enc.out,
                              SubSeq(enc.src, enc.written + 1, enc.written + len),
                              sc))
    /\ UNCHANGED <<dec, rdr, wtr, ctor>>

\* poll_close after write_all: nothing of the encoder changes, the transport
\* is closed
EncClose ==
    /\ enc.status = "writing"
    /\ enc.written = Len(enc.src)
    /\ enc' = [enc EXCEPT !.status = "closed"]
    /\ UNCHANGED <<dec, rdr, wtr, ctor>>

\* a decoder with the same parameters is opened over the written bytes
DecOpen ==
    /\ enc.status = "closed"
    /\ dec = Idle
    /\ \E g \in Garbage :
         LET p == [chunk_size |-> enc.chunk_size,
                   bytes_per_line |-> enc.bytes_per_line,
                   num_bytes |-> Len(enc.src), fill_byte |-> 0]
         IN  dec' = [d |-> NewDecoderOf(p, g), d0 |-> NewDecoderOf(p, g),
                     data |-> enc.out, pos |-> 0, sink |-> <<>>,
                     status |-> "open", err |-> "none",
                     pended |-> FALSE, midblock |-> FALSE, dropped |-> FALSE, waited |-> FALSE, early |-> FALSE, staged |-> FALSE,
                 eof |-> FALSE]
    /\ UNCHANGED <<enc, rdr, wtr, ctor>>

\* the buffers the caller offers: all the rest of the page, as write_all does,
\* and for the short pages also its first bytes alone
WriteLens ==
    {Len(enc.src) - enc.written}
        \cup (IF Len(enc.src) <= MaxSrc THEN 1..MaxBuf ELSE {})

\* the buffers the reader passes: the scratch buffer of a read to the end, and
\* for the short pages also buffers of a few bytes
ReadLens ==
    {ScratchLen} \cup (IF Len(enc.src) <= MaxSrc THEN 1..MaxBuf ELSE {})

CodecNext ==
    \/ \E len \in WriteLens, sc \in Scripts : EncWrite(len, sc)
    \/ EncClose
    \/ DecOpen
    \/ \E b \in ReadLens, sc \in Scripts : DecRead(b, sc)

SpecCodec == CodecInit /\ [][CodecNext]_vars

\* ------------------------------------------------------------------------
\* Properties of the encoder and of the codec (SpecCodec)
\* ------------------------------------------------------------------------
\* C1: encoder -> decoder round trip.  A page of total bytes, total a
\* multiple of bytes_per_line and bytes_per_line a multiple of chunk_size,
\* written through the encoder and closed, is written without error, and a
\* decoder with the same parameters reads the written bytes to the end
\* without error and delivers exactly the page.
CodecRoundTrip ==
    /\ enc.status \in {"writing", "closed"}
    /\ dec.status \in {"idle", "open", "eof"}
    /\ dec.status # "idle" => IsPrefix(dec.sink, enc.src)
    /\ dec.status = "eof" => dec.sink = enc.src

\* C1 witness: a page with a run longer than one run block holds was
\* written, closed and read back to the end
CodecRoundTripDone ==
    /\ dec.status = "eof"
    /\ enc.bytes_per_line > RunCap
    /\ Len(dec.sink) = Len(enc.src)
    /\ dec.sink[1] = dec.sink[2]

\* the same page written by write_all over the unrestricted transport
EncReference == EncWriteAll(enc.e0, <<>>, enc.src, 0)

\* C3: encoder partial-I/O resumability.  Whatever Pending results and
\* one-byte transfers the transport produces and however the caller splits
\* the page (offering the same bytes again after Pending), the transport has
\* received a prefix of what it receives over the unrestricted transport, no
\* call fails or returns a count outside 1..len, and when all input has been
\* taken the output and the encoder are the same and the returned counts sum
\* to the input length.
EncoderResumable ==
    LET ref == EncReference
    IN  /\ enc.status \in {"writing", "closed"}
        /\ ~enc.over
        /\ enc.written <= Len(enc.src)
        /\ IsPrefix(enc.out, ref.out)
        /\ enc.e.fstate = "None" =>
              enc.e.bytes_remaining = Len(enc.src) - enc.written
        /\ enc.written = Len(enc.src) =>
              /\ ref.status = "done"
              /\ enc.out = ref.out
              /\ enc.e = ref.e

\* C3 witness: a page written and closed although a write was suspended in
\* the middle of a flush after the encoder had taken bytes of the buffer
EncoderResumedToEnd ==
    /\ enc.status = "closed"
    /\ enc.pended
    /\ Len(enc.src) > 2
    /\ Len(enc.out) > 3

\* what the transport has received, read as the wire format
EncRef ==
    RefGroups(enc.out, 0, enc.chunk_size, Len(enc.e.line_buffer), 0, 0,
              <<>>, <<>>)

NoFillTagIn(ref) == \A i \in 1..Len(ref.tags) : ref.tags[i].code # FillOpcode

\* C18: no block byte the encoder has written is 0x80, whatever the page
\* and however the writing was split and suspended; 0x80 appears only as
\* a line-repeat byte or as pixel data.
NoFillTag == NoFillTagIn(EncRef)

\* C18 witness: 129 equal lines of the pixel 0x80 were written as one line
\* group whose line-repeat byte is 0x80, then block byte 0x00 and the pixel
FillByteAsRepeat ==
    /\ enc.status = "closed"
    /\ Len(enc.src) = FillOpcode + 1
    /\ enc.out = <<128, 0, 128>>

\* the lines of the page are all equal
OneLine(src, L) == \A i \in 1..(Len(src) - L) : src[i] = src[i + L]

CoalescedIn(ref, L) ==
    /\ IsPrefix(RefBytes(ref.groups), enc.src)
    /\ \A i \in 1..Len(ref.groups) : ref.groups[i].repeat <= LineRepeatCap
    /\ \A i \in 1..(Len(ref.groups) - 1) :
          ref.groups[i].repeat < LineRepeatCap =>
             ref.groups[i].line # ref.groups[i + 1].line
    /\ (enc.written = Len(enc.src) /\ enc.status \in {"writing", "closed"}) =>
          /\ ref.ok
          /\ RefBytes(ref.groups) = enc.src
          /\ (OneLine(enc.src, L) /\ L > 0) =>
                /\ Len(ref.groups) = ((Len(enc.src) \div L) + 255) \div 256
                /\ \A i \in 1..(Len(ref.groups) - 1) :
                      ref.groups[i].repeat = LineRepeatCap

\* C19: line-repeat coalescing.  The line groups the transport has received
\* expand, each line 1 + its header byte times, to the page written so
\* far and at the end to the whole page; a group with a header below 0xFF
\* is never followed by a group with the same line; and n equal lines,
\* the whole page, make ceil(n / 256) groups of which all but the last
\* have header 0xFF.
LineRepeatCoalesced == CoalescedIn(EncRef, Len(enc.e.line_buffer))

\* C19 witness: 258 equal lines were written as a group with header 0xFF
\* and a group with header 1
CoalescedOverCap ==
    /\ enc.status = "closed"
    /\ Len(enc.src) = LineRepeatCap + 3
    /\ enc.bytes_per_line = 1
    /\ enc.out = <<255, 0, 128, 1, 0, 128>>

\* ------------------------------------------------------------------------
\* decode/uncompressed.rs
\* ------------------------------------------------------------------------
NoUncompressed == [bytes_remaining |-> 0]

UncompressedRasterDecoderNew(limits, num_bytes) ==
    IF num_bytes > limits.bytes_per_page
    THEN [err |-> "InvalidData", dec |-> NoUncompressed]
    ELSE [err |-> "none", dec |-> [bytes_remaining |-> num_bytes]]

\* a buffer that is not cut to the bytes the page still holds
PassLimit_Unlimited(bytes_remaining, buf_len) == buf_len

\* `(*this.bytes_remaining).min(buf.len() as u64) as usize`
PassLimit(bytes_remaining, buf_len) == Min(bytes_remaining, buf_len)

\* UncompressedRasterDecoder::poll_read with a caller buffer of buf_len bytes
UncPollRead(d, data, pos, buf_len, sc) ==
    LET buf_size == PassLimit(d.bytes_remaining, buf_len)
        total_read == Transfer(buf_size, Len(data) - pos, sc)
    IN  IF buf_size = 0
        THEN [k |-> "done", polls |-> 0, eof |-> FALSE,
              dec |-> d, pos |-> pos, res |-> "Ok", n |-> 0,
              err |-> "none", bytes |-> <<>>, dropped |-> 0]
        ELSE IF sc.pend = 1
        THEN [k |-> "done", polls |-> 0, eof |-> FALSE,
              dec |-> d, pos |-> pos, res |-> "Pending", n |-> 0,
              err |-> "none", bytes |-> <<>>, dropped |-> 0]
        ELSE [k |-> "done", polls |-> 1, eof |-> (total_read = 0),
              dec |-> [d EXCEPT !.bytes_remaining = SatSub(@, total_read)],
              pos |-> pos + total_read, res |-> "Ok", n |-> total_read,
              err |-> "none", bytes |-> Slice(data, pos, total_read),
              dropped |-> 0]

\* ------------------------------------------------------------------------
\* encode/uncompressed.rs
\* ------------------------------------------------------------------------
UncompressedRasterEncoderNew(num_bytes) == [bytes_remaining |-> num_bytes]

\* UncompressedRasterEncoder::poll_write(buf_in) over a transport that
\* behaves as sc says
UncPollWrite(e, out, buf_in, sc) ==
    LET buf_size == PassLimit(e.bytes_remaining, Len(buf_in))
        total_write == Transfer(buf_size, buf_size, sc)
    IN  IF buf_size = 0
        THEN [e |-> e, out |-> out, polls |-> 0, res |-> "Ok", n |-> 0,
              err |-> "none"]
        ELSE IF sc.pend = 1
        THEN [e |-> e, out |-> out, polls |-> 0, res |-> "Pending", n |-> 0,
              err |-> "none"]
        ELSE [e |-> [e EXCEPT !.bytes_remaining = SatSub(@, total_write)],
              out |-> out \o Slice(buf_in, 0, total_write),
              polls |-> 1, res |-> "Ok", n |-> total_write, err |-> "none"]

\* ------------------------------------------------------------------------
\* Constructing decoders under limits
\* ------------------------------------------------------------------------
MaxDim == 4

LimitVals == {0, 2, MaxDim, U64Max}

AllLimits == [bytes_per_line : LimitVals, bytes_per_page : LimitVals]

\* the transport handed to the constructors
CtorData == <<0, 0, 7, 0, 128, 1, 255, 7, 9>>

CtorInit ==
    /\ ctor = [status |-> "none", kind |-> "none", limits |-> NO_LIMITS,
               chunk_size |-> 0, bytes_per_line |-> 0, num_bytes |-> 0,
               err |-> "none", cdec |-> NoDecoder, udec |-> NoUncompressed,
               enc_err |-> "none", cenc |-> NoEncoder, pos |-> 0]
    /\ dec = Idle /\ enc = Idle /\ rdr = Idle /\ wtr = Idle

\* CompressedRasterDecoder::new over a transport at its first byte
NewCompressed(limits, chunk_size, bytes_per_line, num_bytes, fill_byte, mem) ==
    LET r == CompressedRasterDecoderNew(limits, chunk_size, bytes_per_line,
                                        num_bytes, fill_byte, 170, mem)
    IN  /\ ctor.status = "none"
        /\ ctor' = [status |-> IF r.err = "none" THEN "built" ELSE "failed",
                    kind |-> "compressed", limits |-> limits,
                    chunk_size |-> chunk_size,
                    bytes_per_line |-> bytes_per_line,
                    num_bytes |-> num_bytes,
                    err |-> r.err, cdec |-> r.dec, udec |-> NoUncompressed,
                    enc_err |-> "none", cenc |-> NoEncoder, pos |-> 0]
        /\ UNCHANGED <<dec, enc, rdr, wtr>>

\* UncompressedRasterDecoder::new over a transport at its first byte
NewUncompressed(limits, num_bytes) ==
    LET r == UncompressedRasterDecoderNew(limits, num_bytes)
    IN  /\ ctor.status = "none"
        /\ ctor' = [status |-> IF r.err = "none" THEN "built" ELSE "failed",
                    kind |-> "uncompressed", limits |-> limits,
                    chunk_size |-> 0, bytes_per_line |-> 0,
                    num_bytes |-> num_bytes,
                    err |-> r.err, cdec |-> NoDecoder, udec |-> r.dec,
                    enc_err |-> "none", cenc |-> NoEncoder, pos |-> 0]
        /\ UNCHANGED <<dec, enc, rdr, wtr>>

\* what the two constructors return for one triple
BothBuilt(chunk_size, bytes_per_line, num_bytes, e, d) ==
    [status |-> "both", kind |-> "both", limits |-> NO_LIMITS,
     chunk_size |-> chunk_size, bytes_per_line |-> bytes_per_line,
     num_bytes |-> num_bytes,
     err |-> d.err, cdec |-> d.dec, udec |-> NoUncompressed,
     enc_err |-> e.err, cenc |-> e.enc, pos |-> 0]

\* CompressedRasterEncoder::new and CompressedRasterDecoder::new under
\* Limits::NO_LIMITS on the same chunk_size, bytes_per_line and num_bytes
NewBoth(chunk_size, bytes_per_line, num_bytes, mem_e, mem_d) ==
    /\ ctor.status = "none"
    /\ ctor' = BothBuilt(chunk_size, bytes_per_line, num_bytes,
                         CompressedRasterEncoderNew(chunk_size, bytes_per_line,
                                                    num_bytes, 170, mem_e),
                         CompressedRasterDecoderNew(NO_LIMITS, chunk_size,
                                                    bytes_per_line, num_bytes,
                                                    0, 170, mem_d))
    /\ UNCHANGED <<dec, enc, rdr, wtr>>

\* a read through the decoder that was built
CtorRead(b) ==
    /\ ctor.status = "built"
    /\ ctor.pos < Len(CtorData)
    /\ LET r == IF ctor.kind = "compressed"
                THEN DecPollRead(ctor.cdec, CtorData, ctor.pos, b, NoPend)
                ELSE UncPollRead(ctor.udec, CtorData, ctor.pos, b, NoPend)
       IN  /\ r.pos > ctor.pos
           /\ ctor' = [ctor EXCEPT
                         !.cdec = IF ctor.kind = "compressed" THEN r.dec ELSE @,
                         !.udec = IF ctor.kind = "uncompressed" THEN r.dec ELSE @,
                         !.pos = r.pos]
    /\ UNCHANGED <<dec, enc, rdr, wtr>>

CtorNext ==
    \/ \E limits \in AllLimits, chunk_size \in 0..2, bytes_per_line \in 0..MaxDim,
          lines \in 0..2, extra \in 0..1, mem \in BOOLEAN :
         NewCompressed(limits, chunk_size, bytes_per_line,
                       lines * bytes_per_line + extra, 255, mem)
    \/ \E limits \in AllLimits, num_bytes \in 0..(2 * MaxDim) :
         NewUncompressed(limits, num_bytes)
    \/ \E b \in BufLens : CtorRead(b)
    \/ \E chunk_size \in 0..2, bytes_per_line \in 0..MaxDim,
          num_bytes \in 0..(2 * MaxDim), mem_e \in BOOLEAN, mem_d \in BOOLEAN :
         NewBoth(chunk_size, bytes_per_line, num_bytes, mem_e, mem_d)

SpecCtor == CtorInit /\ [][CtorNext]_vars

\* C5: limits enforcement.  CompressedRasterDecoder::new called with
\* bytes_per_line > limits.bytes_per_line or num_bytes > limits.bytes_per_page,
\* and UncompressedRasterDecoder::new called with
\* num_bytes > limits.bytes_per_page, fail with InvalidData: no decoder
\* exists afterwards and the transport is still at its first byte.
LimitsEnforced ==
    LET over_line == ctor.bytes_per_line > ctor.limits.bytes_per_line
        over_page == ctor.num_bytes > ctor.limits.bytes_per_page
    IN  /\ (ctor.kind = "compressed" /\ (over_line \/ over_page)) =>
              /\ ctor.status = "failed"
              /\ ctor.err = "InvalidData"
              /\ ctor.cdec = NoDecoder
              /\ ctor.pos = 0
        /\ (ctor.kind = "uncompressed" /\ over_page) =>
              /\ ctor.status = "failed"
              /\ ctor.err = "InvalidData"
              /\ ctor.udec = NoUncompressed
              /\ ctor.pos = 0

\* C5 witness: a compressed decoder of a well-formed page was refused only
\* because the page is larger than limits.bytes_per_page
RefusedByPageLimit ==
    /\ ctor.kind = "compressed"
    /\ ctor.status = "failed"
    /\ ctor.err = "InvalidData"
    /\ ctor.num_bytes > ctor.limits.bytes_per_page
    /\ ctor.bytes_per_line <= ctor.limits.bytes_per_line
    /\ ~LayoutError(ctor.chunk_size, ctor.bytes_per_line, ctor.num_bytes)

\* both constructors refuse with InvalidData
BothRefuse == ctor.err = "InvalidData" /\ ctor.enc_err = "InvalidData"

URF_HEADER_SIZE == 32
URF_FILE_HEADER_SIZE == 12

Zeros(n) == [i \in 1..n |-> 0]

\* u32::from_be_bytes of the four bytes after the first off, and to_be_bytes
U32FromBe(content, off) ==
    ((content[off + 1] * 256 + content[off + 2]) * 256 + content[off + 3]) * 256
        + content[off + 4]

U32ToBe(v) ==
    <<(v \div 16777216) % 256, (v \div 65536) % 256, (v \div 256) % 256, v % 256>>

\* b"UNIRAST\0"
UrfMagic == <<85, 78, 73, 82, 65, 83, 84, 0>>

\* the discriminants the TryFromPrimitive enums accept
UrfColorSpaces == 0..6
UrfDuplexes == 1..3
UrfQualities == {0, 3, 4, 5}
UrfMediaPositions == 0..49
UrfMediaTypes == 0..13

NoHeader ==
    [bits_per_pixel |-> 0, color_space |-> 0, duplex |-> 0, quality |-> 0,
     media_position |-> 0, media_type |-> 0, width |-> 0, height |-> 0,
     dot_per_inch |-> 0]

UrfHeaderFromBytes(content) ==
    IF content[2] \notin UrfColorSpaces
    THEN [err |-> "UnknownColorSpace", header |-> NoHeader]
    ELSE IF content[3] \notin UrfDuplexes
    THEN [err |-> "UnknownDuplex", header |-> NoHeader]
    ELSE IF content[4] \notin UrfQualities
    THEN [err |-> "UnknownQuality", header |-> NoHeader]
    ELSE IF content[5] \notin UrfMediaPositions
    THEN [err |-> "UnknownMediaPosition", header |-> NoHeader]
    ELSE IF content[6] \notin UrfMediaTypes
    THEN [err |-> "UnknownMediaType", header |-> NoHeader]
    ELSE [err |-> "none",
          header |-> [bits_per_pixel |-> content[1],
                      color_space |-> content[2],
                      duplex |-> content[3],
                      quality |-> content[4],
                      media_position |-> content[5],
                      media_type |-> content[6],
                      width |-> U32FromBe(content, 12),
                      height |-> U32FromBe(content, 16),
                      dot_per_inch |-> U32FromBe(content, 20)]]

UrfHeaderToBytes(header) ==
    <<header.bits_per_pixel, header.color_space, header.duplex,
      header.quality, header.media_position, header.media_type>>
        \o Zeros(6)
        \o U32ToBe(header.width) \o U32ToBe(header.height)
        \o U32ToBe(header.dot_per_inch)
        \o Zeros(8)

\* (chunk_size, bytes_per_line, num_bytes) of a page; the product overflows
\* u64 for no header of the files read here
UrfLayout(header) ==
    LET chunk_size == header.bits_per_pixel \div 8
    IN  [chunk_size |-> chunk_size,
         bytes_per_line |-> header.width * chunk_size,
         num_bytes |-> (header.width * header.height) * chunk_size]

UrfFillByte(header) == IF header.color_space \in 0..5 THEN 255 ELSE 0

\* UrfPageFactory::decode
UrfDecode(header, limits, garbage) ==
    LET l == UrfLayout(header)
    IN  CompressedRasterDecoderNew(limits, l.chunk_size, l.bytes_per_line,
                                   l.num_bytes, UrfFillByte(header), garbage, TRUE)

\* UrfPageFactory::encode
UrfEncode(header, garbage) ==
    LET l == UrfLayout(header)
    IN  CompressedRasterEncoderNew(l.chunk_size, l.bytes_per_line, l.num_bytes,
                                   garbage, TRUE)

\* ------------------------------------------------------------------------
\* factory/cups.rs : the page header of CUPS Raster V2
\* ------------------------------------------------------------------------
CUPS_V1_HEADER_SIZE == 420
CUPS_V2_HEADER_SIZE == 1796
CUPS_STRING_SIZE == 64
CUPS_VENDOR_COUNT == 16

\* the discriminants the TryFromPrimitive enums accept (model/cups.rs)
CupsAdvances == 0..4
CupsCuts == 0..4
CupsJogs == 0..3
CupsLeadingEdges == 0..3
CupsOrientations == 0..3
CupsColorOrders == 0..2
CupsColorSpaces == (0..20) \cup (32..46) \cup (48..62)

\* TOrder::read_u32 and TOrder::write_u32 for BigEndian ("BE") and
\* LittleEndian ("LE"); read_f32 and write_f32 move the same four bytes, and
\* an f32 is kept as its bits
ReadU32(order, b) ==
    IF order = "BE"
    THEN ((b[1] * 256 + b[2]) * 256 + b[3]) * 256 + b[4]
    ELSE ((b[4] * 256 + b[3]) * 256 + b[2]) * 256 + b[1]

\* a write_u32 that always writes big endian
WriteU32_IgnoresOrder(order, v) ==
    <<(v \div 16777216) % 256, (v \div 65536) % 256, (v \div 256) % 256, v % 256>>

WriteU32(order, v) ==
    IF order = "BE"
    THEN <<(v \div 16777216) % 256, (v \div 65536) % 256, (v \div 256) % 256, v % 256>>
    ELSE <<v % 256, (v \div 256) % 256, (v \div 65536) % 256, (v \div 16777216) % 256>>

\* str::from_utf8 accepts s: every byte that is not a continuation byte
\* starts a well-formed sequence, and every continuation byte is in one
Continuation(s, i) == i <= Len(s) /\ s[i] \in 128..191

Utf8Length(b) ==
    IF b < 128 THEN 1
    ELSE IF b \in 194..223 THEN 2
    ELSE IF b \in 224..239 THEN 3
    ELSE IF b \in 240..244 THEN 4
    ELSE 0

Utf8Second(b) ==
    IF b = 224 THEN 160..191
    ELSE IF b = 237 THEN 128..159
    ELSE IF b = 240 THEN 144..191
    ELSE IF b = 244 THEN 128..143
    ELSE 128..191

Utf8SequenceAt(s, i) ==
    LET n == Utf8Length(s[i])
    IN  /\ n > 0
        /\ i + n - 1 <= Len(s)
        /\ n > 1 => s[i + 1] \in Utf8Second(s[i])
        /\ \A j \in (i + 2)..(i + n - 1) : Continuation(s, j)
        /\ ~Continuation(s, i + n)

Utf8Valid(s) ==
    /\ ~Continuation(s, 1)
    /\ \A i \in 1..Len(s) : ~Continuation(s, i) => Utf8SequenceAt(s, i)

\* read_c_string: the bytes before the first NUL, as a string
ReadCString(content) ==
    LET nul == {i \in 1..Len(content) : content[i] = 0}
        len == IF nul = {} THEN Len(content) ELSE First(nul) - 1
        str == SubSeq(content, 1, len)
    IN  IF Utf8Valid(str) THEN [err |-> "none", val |-> str]
        ELSE [err |-> "InvalidString", val |-> <<>>]

\* write_c_string into a field of len bytes
WriteCString(len, str) ==
    IF Len(str) > len THEN [err |-> "StringTooLong", bytes |-> <<>>]
    ELSE [err |-> "none", bytes |-> str \o Zeros(len - Len(str))]

\* read_bool and write_bool
ReadBool(content) == \E i \in 1..Len(content) : content[i] # 0

WriteBool(order, b) == WriteU32(order, IF b THEN 1 ELSE 0)

\* one field of the header: its place in the 1796 bytes and how it is read
CupsField(name, off, len, kind, dom, err) ==
    [name |-> name, off |-> off, len |-> len, kind |-> kind, dom |-> dom,
     err |-> err]

\* read_page_header_v1 and write_page_header_v1: the fields in their order
CupsV1Fields ==
    <<
       CupsField("media_class", 0, 64, "str", {}, "InvalidString"),
       CupsField("media_color", 64, 64, "str", {}, "InvalidString"),
       CupsField("media_type", 128, 64, "str", {}, "InvalidString"),
       CupsField("output_type", 192, 64, "str", {}, "InvalidString"),
       CupsField("advance_distance", 256, 4, "u32", {}, "none"),
       CupsField("advance_media", 260, 4, "enum", CupsAdvances, "UnknownAdvanceMedia"),
       CupsField("collate", 264, 4, "bool", {}, "none"),
       CupsField("cut_media", 268, 4, "enum", CupsCuts, "UnknownCutMedia"),
       CupsField("duplex", 272, 4, "bool", {}, "none"),
       CupsField("resolution_cross_feed", 276, 4, "u32", {}, "none"),
       CupsField("resolution_feed", 280, 4, "u32", {}, "none"),
       CupsField("imaging_bbox_left", 284, 4, "u32", {}, "none"),
       CupsField("imaging_bbox_bottom", 288, 4, "u32", {}, "none"),
       CupsField("imaging_bbox_right", 292, 4, "u32", {}, "none"),
       CupsField("imaging_bbox_top", 296, 4, "u32", {}, "none"),
       CupsField("insert_sheet", 300, 4, "bool", {}, "none"),
       CupsField("jog", 304, 4, "enum", CupsJogs, "UnknownJog"),
       CupsField("leading_edge", 308, 4, "enum", CupsLeadingEdges, "UnknownLeadingEdge"),
       CupsField("margins_left", 312, 4, "u32", {}, "none"),
       CupsField("margins_bottom", 316, 4, "u32", {}, "none"),
       CupsField("manual_feed", 320, 4, "bool", {}, "none"),
       CupsField("media_position", 324, 4, "u32", {}, "none"),
       CupsField("media_weight", 328, 4, "u32", {}, "none"),
       CupsField("mirror_print", 332, 4, "bool", {}, "none"),
       CupsField("negative_print", 336, 4, "bool", {}, "none"),
       CupsField("num_copies", 340, 4, "u32", {}, "none"),
       CupsField("orientation", 344, 4, "enum", CupsOrientations, "UnknownOrientation"),
       CupsField("output_face_up", 348, 4, "bool", {}, "none"),
       CupsField("page_size_width", 352, 4, "u32", {}, "none"),
       CupsField("page_size_height", 356, 4, "u32", {}, "none"),
       CupsField("separations", 360, 4, "bool", {}, "none"),
       CupsField("tray_switch", 364, 4, "bool", {}, "none"),
       CupsField("tumble", 368, 4, "bool", {}, "none"),
       CupsField("width", 372, 4, "u32", {}, "none"),
       CupsField("height", 376, 4, "u32", {}, "none"),
       CupsField("cups_media_type", 380, 4, "u32", {}, "none"),
       CupsField("bits_per_color", 384, 4, "u32", {}, "none"),
       CupsField("bits_per_pixel", 388, 4, "u32", {}, "none"),
       CupsField("bytes_per_line", 392, 4, "u32", {}, "none"),
       CupsField("color_order", 396, 4, "enum", CupsColorOrders, "UnknownColorOrder"),
       CupsField("color_space", 400, 4, "enum", CupsColorSpaces, "UnknownColorSpace"),
       CupsField("cups_compression", 404, 4, "u32", {}, "none"),
       CupsField("cups_row_count", 408, 4, "u32", {}, "none"),
       CupsField("cups_row_feed", 412, 4, "u32", {}, "none"),
       CupsField("cups_row_step", 416, 4, "u32", {}, "none")
    >>

\* read_page_header_v2 and write_page_header_v2: the fields after v1
CupsV2Fields ==
    <<
       CupsField("num_colors", 420, 4, "u32", {}, "none"),
       CupsField("borderless_scaling_factor", 424, 4, "f32", {}, "none"),
       CupsField("page_size_f32_width", 428, 4, "f32", {}, "none"),
       CupsField("page_size_f32_height", 432, 4, "f32", {}, "none"),
       CupsField("imaging_bbox_f32_left", 436, 4, "f32", {}, "none"),
       CupsField("imaging_bbox_f32_bottom", 440, 4, "f32", {}, "none"),
       CupsField("imaging_bbox_f32_right", 444, 4, "f32", {}, "none"),
       CupsField("imaging_bbox_f32_top", 448, 4, "f32", {}, "none"),
       CupsField("vendor_u32", 452, 64, "u32s", {}, "none"),
       CupsField("vendor_f32", 516, 64, "f32s", {}, "none"),
       CupsField("vendor_str", 580, 1024, "strs", {}, "none"),
       CupsField("marker_type", 1604, 64, "str", {}, "InvalidString"),
       CupsField("rendering_intent", 1668, 64, "str", {}, "InvalidString"),
       CupsField("page_size_name", 1732, 64, "str", {}, "InvalidString")
    >>

CupsFields == CupsV1Fields \o CupsV2Fields

\* the i-th of the 16 parts of an array field
Part(b, i, len) == SubSeq(b, (i - 1) * len + 1, i * len)

\* the value of field f read from the header bytes, or its error
CupsReadField(order, f, content) ==
    LET b == SubSeq(content, f.off + 1, f.off + f.len)
    IN  IF f.kind = "str" THEN ReadCString(b)
        ELSE IF f.kind = "bool" THEN [err |-> "none", val |-> ReadBool(b)]
        ELSE IF f.kind = "enum"
        THEN IF ReadU32(order, b) \in f.dom
             THEN [err |-> "none", val |-> ReadU32(order, b)]
             ELSE [err |-> f.err, val |-> 0]
        ELSE IF f.kind \in {"u32s", "f32s"}
        THEN [err |-> "none",
              val |-> [i \in 1..CUPS_VENDOR_COUNT |-> ReadU32(order, Part(b, i, 4))]]
        ELSE IF f.kind = "strs"
        THEN [err |-> "none",
              val |-> [i \in 1..CUPS_VENDOR_COUNT |->
                          ReadCString(Part(b, i, CUPS_STRING_SIZE)).val]]
        ELSE [err |-> "none", val |-> ReadU32(order, b)]

\* two writes one after the other: the first error, or all the bytes
JoinWritten(a, b) ==
    IF a.err # "none" THEN a
    ELSE IF b.err # "none" THEN b
    ELSE [err |-> "none", bytes |-> a.bytes \o b.bytes]

\* the loops over the 16 parts of an array field, parts lo to hi
RECURSIVE CupsWriteParts(_, _, _, _, _)
CupsWriteParts(order, kind, val, lo, hi) ==
    IF lo = hi
    THEN IF kind = "strs" THEN WriteCString(CUPS_STRING_SIZE, val[lo])
         ELSE [err |-> "none", bytes |-> WriteU32(order, val[lo])]
    ELSE JoinWritten(CupsWriteParts(order, kind, val, lo, (lo + hi) \div 2),
                     CupsWriteParts(order, kind, val, ((lo + hi) \div 2) + 1, hi))

\* the bytes of field f written from its value, or the error
CupsWriteField(order, f, val) ==
    IF f.kind = "str" THEN WriteCString(f.len, val)
    ELSE IF f.kind = "bool" THEN [err |-> "none", bytes |-> WriteBool(order, val)]
    ELSE IF f.kind \in {"u32s", "f32s", "strs"}
    THEN CupsWriteParts(order, f.kind, val, 1, CUPS_VENDOR_COUNT)
    ELSE [err |-> "none", bytes |-> WriteU32(order, val)]

\* a header is the sequence of the values of CupsFields; header.v1.x and
\* header.x of the source are Field(header, "x")
FieldIndex(name) == CHOOSE i \in 1..Len(CupsFields) : CupsFields[i].name = name

Field(header, name) == header[FieldIndex(name)]

\* the chunk size of a page: bytes of a pixel (chunky) or of a color
CupsChunkSize(header) ==
    LET bits == IF Field(header, "color_order") = 0
                THEN Field(header, "bits_per_pixel")
                ELSE Field(header, "bits_per_color")
        bytes == (bits + 7) \div 8
    IN  IF bytes > 255 THEN [err |-> "DataTooLarge", val |-> 0]
        ELSE [err |-> "none", val |-> IF bytes < 1 THEN 1 ELSE bytes]

\* a check that takes the bytes of a pixel as the chunk of every color order
CupsLayoutError_ChunkyOnly(header) ==
    LET bytes == (Field(header, "bits_per_pixel") + 7) \div 8
    IN  IF bytes > 255 THEN "DataTooLarge"
        ELSE IF Field(header, "bytes_per_line") # 0
                /\ Field(header, "bytes_per_line")
                      % (IF bytes < 1 THEN 1 ELSE bytes) # 0
        THEN "DataLayoutError"
        ELSE "none"

\* the check at the end of read_page_header_v1
CupsLayoutError(header) ==
    LET c == CupsChunkSize(header)
    IN  IF c.err # "none" THEN c.err
        ELSE IF Field(header, "bytes_per_line") # 0
                /\ Field(header, "bytes_per_line") % c.val # 0
        THEN "DataLayoutError"
        ELSE "none"

NoCupsHeader == <<>>

\* the error of the first field of fields that fails to read, or "none"
FirstReadError(parsed, from, to) ==
    LET bad == {i \in from..to : parsed[i].err # "none"}
    IN  IF bad = {} THEN "none" ELSE parsed[First(bad)].err

\* CupsPageFactoryV2::header_from_bytes
CupsHeaderFromBytes(order, content) ==
    LET parsed == [i \in 1..Len(CupsFields) |->
                      CupsReadField(order, CupsFields[i], content)]
        header == [i \in 1..Len(CupsFields) |-> parsed[i].val]
        n1 == Len(CupsV1Fields)
        e1 == FirstReadError(parsed, 1, n1)
        e2 == FirstReadError(parsed, n1 + 1, Len(CupsFields))
    IN  IF e1 # "none" THEN [err |-> e1, header |-> NoCupsHeader]
        ELSE IF CupsLayoutError(header) # "none"
        THEN [err |-> CupsLayoutError(header), header |-> NoCupsHeader]
        ELSE IF e2 # "none" THEN [err |-> e2, header |-> NoCupsHeader]
        ELSE [err |-> "none", header |-> header]

\* the writes of the fields lo to hi, in the order of the source
RECURSIVE CupsWriteFields(_, _, _, _)
CupsWriteFields(order, header, lo, hi) ==
    IF lo = hi THEN CupsWriteField(order, CupsFields[lo], header[lo])
    ELSE JoinWritten(CupsWriteFields(order, header, lo, (lo + hi) \div 2),
                     CupsWriteFields(order, header, ((lo + hi) \div 2) + 1, hi))

\* CupsPageFactoryV2::header_to_bytes: the fields are next to each other and
\* cover target, so that every byte of it is written
CupsHeaderToBytes(order, header) ==
    CupsWriteFields(order, header, 1, Len(CupsFields))

\* CupsPageHeaderV1::num_colors and CupsPageHeaderV2::num_colors
CupsV1NumColors(color_space, bits_per_pixel) ==
    IF color_space \in {0, 3, 12, 13, 14, 18} THEN 1
    ELSE IF color_space \in {1, 4, 5, 15, 16, 19, 20} \cup (32..46) THEN 3
    ELSE IF color_space \in {2, 6, 7, 8, 10, 11, 17} THEN 4
    ELSE IF color_space = 9 THEN (IF bits_per_pixel < 8 THEN 6 ELSE 4)
    ELSE color_space - 47

CupsNumColors(header) ==
    IF Field(header, "num_colors") = 0
    THEN CupsV1NumColors(Field(header, "color_space"),
                         Field(header, "bits_per_pixel"))
    ELSE Field(header, "num_colors")

\* (chunk_size, bytes_per_line, num_bytes) of a page; the products overflow
\* u64 for no header of the files read here
CupsLayout(header) ==
    LET lines == Field(header, "bytes_per_line") * Field(header, "height")
    IN  [chunk_size |-> CupsChunkSize(header).val,
         bytes_per_line |-> Field(header, "bytes_per_line"),
         num_bytes |-> IF Field(header, "color_order") = 2
                       THEN lines * CupsNumColors(header)
                       ELSE lines]

\* a fill that is white for the six color spaces of URF only
CupsFillByte_NoAlpha(header) ==
    IF Field(header, "color_space") \in {18, 19, 16, 20, 0, 1}
    THEN 255 ELSE 0

\* `let fill_byte = match header.v1.color_space { ... }`
CupsFillByte(header) ==
    IF Field(header, "color_space") \in {18, 19, 16, 20, 0, 1, 2, 17}
    THEN 255 ELSE 0

\* CupsPageFactoryV2::decode
CupsDecode(header, limits, garbage) ==
    LET l == CupsLayout(header)
    IN  IF CupsChunkSize(header).err # "none"
        THEN [err |-> CupsChunkSize(header).err, dec |-> NoDecoder]
        ELSE CompressedRasterDecoderNew(limits, l.chunk_size, l.bytes_per_line,
                                        l.num_bytes, CupsFillByte(header),
                                        garbage, TRUE)

\* CupsPageFactoryV2::encode
CupsEncode(header, garbage) ==
    LET l == CupsLayout(header)
    IN  IF CupsChunkSize(header).err # "none"
        THEN [err |-> CupsChunkSize(header).err, enc |-> NoEncoder]
        ELSE CompressedRasterEncoderNew(l.chunk_size, l.bytes_per_line,
                                        l.num_bytes, garbage, TRUE)

\* ------------------------------------------------------------------------
\* factory/interface.rs : RasterPageFactory, for the two factories above
\* ------------------------------------------------------------------------
UrfPageFactory == [kind |-> "urf", order |-> "BE"]

CupsPageFactoryV2(order) == [kind |-> "cups", order |-> order]

HEADER_SIZE(F) ==
    IF F.kind = "urf" THEN URF_HEADER_SIZE ELSE CUPS_V2_HEADER_SIZE

header_from_bytes(F, content) ==
    IF F.kind = "urf" THEN UrfHeaderFromBytes(content)
    ELSE CupsHeaderFromBytes(F.order, content)

header_to_bytes(F, header) ==
    IF F.kind = "urf" THEN [err |-> "none", bytes |-> UrfHeaderToBytes(header)]
    ELSE CupsHeaderToBytes(F.order, header)

decode(F, header, limits, garbage) ==
    IF F.kind = "urf" THEN UrfDecode(header, limits, garbage)
    ELSE CupsDecode(header, limits, garbage)

encode(F, header, garbage) ==
    IF F.kind = "urf" THEN UrfEncode(header, garbage)
    ELSE CupsEncode(header, garbage)

\* UrfReader::new over the unrestricted transport: the file header
UrfReaderNew(file) ==
    IF Len(file) < URF_FILE_HEADER_SIZE
    THEN [err |-> "UnexpectedEof", page_count |-> 0, pos |-> Len(file)]
    ELSE IF SubSeq(file, 1, 8) # UrfMagic
    THEN [err |-> "InvalidMagic", page_count |-> 0, pos |-> URF_FILE_HEADER_SIZE]
    ELSE [err |-> "none", page_count |-> U32FromBe(file, 8),
          pos |-> URF_FILE_HEADER_SIZE]

\* the script left for the rest of a call after k polls of the transport
Rest(sc, k) == [sc EXCEPT !.pend = IF @ > k THEN @ - k ELSE 0]

\* ------------------------------------------------------------------------
\* reader/common/mod.rs : CommonRasterPageReaderFor::poll, for a factory F
\* ------------------------------------------------------------------------
\* a header read that turns the end of input into an error
HeaderEof_IsError(start) == "UnexpectedEof"

\* what the loop returns when the transport returns 0 bytes before the header
\* is complete: Ok(None), whatever start is
HeaderEof(start) == "None"

ForResult(c, res, err, header, d) ==
    [k |-> "done", res |-> res, err |-> err, buffer |-> c.buffer,
     start |-> c.start, pos |-> c.pos, polls |-> c.polls,
     eof_at |-> c.eof_at, header |-> header, dec |-> d]

\* the page, or the error of F::decode
ForDecoded(c, header, r) ==
    IF r.err # "none" THEN ForResult(c, "Err", r.err, NoHeader, NoDecoder)
    ELSE ForResult(c, "Page", "none", header, r.dec)

\* F::decode of the header h, or the error of header_from_bytes
ForParsed(F, c, h, limits, garbage) ==
    IF h.err # "none" THEN ForResult(c, "Err", h.err, NoHeader, NoDecoder)
    ELSE ForDecoded(c, h.header, decode(F, h.header, limits, garbage))

\* after the loop: header_from_bytes, then F::decode
ForFinish(F, c, limits, garbage) ==
    ForParsed(F, c, header_from_bytes(F, c.buffer), limits, garbage)

\* one turn of the loop that reads the header
ForStep(F, c, file, limits, garbage, sc) ==
    LET pending == (sc.pend = c.polls + 1)
        num_read == Transfer(HEADER_SIZE(F) - c.start, Len(file) - c.pos, sc)
        c1 == [c EXCEPT !.buffer = WriteAt(@, c.start, Slice(file, c.pos, num_read)),
                        !.start = @ + num_read,
                        !.pos = @ + num_read,
                        !.polls = @ + 1,
                        !.eof_at = IF num_read = 0 THEN c.start ELSE @]
    IN  IF pending THEN ForResult(c, "Pending", "none", NoHeader, NoDecoder)
        ELSE IF c1.start >= HEADER_SIZE(F) THEN ForFinish(F, c1, limits, garbage)
        ELSE IF num_read = 0
        THEN LET out == HeaderEof(c1.start)
             IN  IF out = "None"
                 THEN ForResult(c1, "None", "none", NoHeader, NoDecoder)
                 ELSE ForResult(c1, "Err", out, NoHeader, NoDecoder)
        ELSE Go(c1)

RECURSIVE ForTurns(_, _, _, _, _, _, _)
ForTurns(F, s, file, limits, garbage, sc, fuel) ==
    IF s.k # "go" THEN s
    ELSE IF fuel <= 1 THEN ForStep(F, s.c, file, limits, garbage, sc)
    ELSE LET mid == ForTurns(F, s, file, limits, garbage, sc, fuel \div 2)
         IN  IF mid.k # "go" THEN mid
             ELSE ForTurns(F, mid, file, limits, garbage, sc, fuel - (fuel \div 2))

\* the result of the loop, which runs out of turns only if it never ends
ForEnd(s) ==
    IF s.k = "go" THEN ForResult(s.c, "Hang", "hang", NoHeader, NoDecoder)
    ELSE s

\* CommonRasterPageReaderFor::poll: every turn but the last reads a byte
ForPoll(F, buffer, start, file, pos, limits, garbage, sc, polls) ==
    ForEnd(ForTurns(F, Go([buffer |-> buffer, start |-> start, pos |-> pos,
                           polls |-> polls, eof_at |-> -1]),
                    file, limits, garbage, sc, HEADER_SIZE(F) + 2))

\* ------------------------------------------------------------------------
\* decode/decoder.rs : RasterDecoderConsumer::poll
\* ------------------------------------------------------------------------
\* a drain that stops at the first read
ConsumerDone_AfterOneRead(remaining) == TRUE

\* `if remaining == 0 { break; }`
ConsumerDone(remaining) == remaining = 0

\* a drain that takes a read of 0 bytes for the end of the page
ConsumerStarved_Breaks(num_read) == IF num_read = 0 THEN "break" ELSE "again"

\* `if num_read == 0 { return Err(UnexpectedEof) }`
ConsumerStarved(num_read) == IF num_read = 0 THEN "UnexpectedEof" ELSE "again"

ConsumeResult(c, res, err) ==
    [k |-> "done", res |-> res, err |-> err, d |-> c.d, pos |-> c.pos,
     polls |-> c.polls, eof |-> c.eof]

\* the turn of the loop of the consumer after its poll_read returned r
ConsumeAfterRead(c, r) ==
    LET remaining == SatSub(c.remaining, r.n)
        c1 == [c EXCEPT !.d = r.dec, !.pos = r.pos, !.polls = @ + r.polls,
                        !.remaining = remaining,
                        !.eof = @ \/ r.eof]
        starved == ConsumerStarved(r.n)
    IN  IF r.res = "Pending" THEN ConsumeResult(c1, "Pending", "none")
        ELSE IF r.res # "Ok" THEN ConsumeResult(c1, r.res, r.err)
        ELSE IF ConsumerDone(remaining) THEN ConsumeResult(c1, "Ok", "none")
        ELSE IF starved = "again" THEN Go(c1)
        ELSE IF starved = "break" THEN ConsumeResult(c1, "Ok", "none")
        ELSE ConsumeResult(c1, "Err", starved)

\* one turn of the loop of the consumer: a read into the scratch buffer
ConsumeStep(c, file, sc) ==
    ConsumeAfterRead(c, DecPollRead(c.d, file, c.pos, ScratchLen,
                                    Rest(sc, c.polls)))

RECURSIVE ConsumeTurns(_, _, _, _)
ConsumeTurns(s, file, sc, fuel) ==
    IF s.k # "go" THEN s
    ELSE IF fuel <= 1 THEN ConsumeStep(s.c, file, sc)
    ELSE LET mid == ConsumeTurns(s, file, sc, fuel \div 2)
         IN  IF mid.k # "go" THEN mid
             ELSE ConsumeTurns(mid, file, sc, fuel - (fuel \div 2))

\* the result of the loop, which runs out of turns only if it never ends
ConsumeEnd(s) ==
    IF s.k = "go" THEN ConsumeResult(s.c, "Hang", "hang") ELSE s

\* RasterDecoderConsumer::poll with the decoder still in it: every turn but
\* the last delivers a byte
ConsumePoll(d, file, pos, sc) ==
    LET c == [d |-> d, pos |-> pos, polls |-> 0,
              remaining |-> d.bytes_remaining, eof |-> FALSE]
    IN  IF d.bytes_remaining = 0 THEN ConsumeResult(c, "Ok", "none")
        ELSE ConsumeEnd(ConsumeTurns(Go(c), file, sc, d.bytes_remaining + 2))

\* ------------------------------------------------------------------------
\* A caller reading the pages of a URF file (reader/urf/mod.rs,
\* reader/common/mod.rs, print_raster/tests/urf.rs)
\* ------------------------------------------------------------------------
UrfFileHeader(page_count) == UrfMagic \o U32ToBe(page_count)

\* a page of 2 x 2 pixels of one byte
SmallHeader ==
    [bits_per_pixel |-> 8, color_space |-> 0, duplex |-> 1, quality |-> 0,
     media_position |-> 0, media_type |-> 0, width |-> 2, height |-> 2,
     dot_per_inch |-> 1]

\* encoded bodies of such a page: a line of a run, repeated; a literal line
\* and a filled line; a run that overruns the line
BodyRun == <<1, 1, 7>>
BodyFill == <<0, 255, 1, 2, 0, 128>>
BodyOverrun == <<0, 2, 7>>

UrfPage(header, body) == UrfHeaderToBytes(header) \o body

UrfFiles ==
    { UrfFileHeader(1) \o UrfPage(SmallHeader, BodyRun),
      UrfFileHeader(2) \o UrfPage(SmallHeader, BodyRun)
                       \o UrfPage(SmallHeader, BodyFill),
      UrfFileHeader(2) \o UrfPage(SmallHeader, BodyFill)
                       \o UrfPage([SmallHeader EXCEPT !.color_space = 6], BodyFill),
      UrfFileHeader(2) \o UrfPage(SmallHeader, BodyOverrun)
                       \o UrfPage(SmallHeader, BodyRun),
      UrfFileHeader(1) \o UrfPage([SmallHeader EXCEPT !.duplex = 0], BodyRun) }

NoPrev ==
    [d0 |-> NoDecoder, body_from |-> -1, left |-> -1, hdr_from |-> -1,
     read |-> 0]

\* UrfReader::new succeeded on the first bytes of a file, cut anywhere after
\* its file header; next_page() made the future that reads the first page
ReaderInit ==
    /\ \E file \in UrfFiles :
         \E cut \in URF_FILE_HEADER_SIZE..Len(file) :
            LET data == SubSeq(file, 1, cut)
                r == UrfReaderNew(data)
            IN  /\ r.err = "none"
                /\ rdr = [fac |-> UrfPageFactory,
                          file |-> data, pos |-> r.pos, limits |-> NO_LIMITS,
                          phase |-> "for", err |-> "none",
                          buffer |-> Zeros(URF_HEADER_SIZE), start |-> 0,
                          header |-> NoHeader, d |-> NoDecoder,
                          sink |-> <<>>, pages |-> 0,
                          hdr_eof |-> -1, drain_eof |-> FALSE,
                          d0 |-> NoDecoder, body_from |-> -1,
                          prev |-> NoPrev]
    /\ dec = Idle /\ enc = Idle /\ wtr = Idle /\ ctor = Idle

\* the reader after CommonRasterPageReaderFor::poll returned r
AfterFor(x, r) ==
    IF r.res = "Pending"
    THEN [x EXCEPT !.phase = "for", !.buffer = r.buffer, !.start = r.start,
                   !.pos = r.pos]
    ELSE IF r.res = "Page"
    THEN [x EXCEPT !.phase = "page", !.buffer = <<>>, !.start = 0,
                   !.pos = r.pos, !.header = r.header, !.d = r.dec,
                   !.sink = <<>>, !.pages = @ + 1,
                   !.d0 = r.dec, !.body_from = r.pos]
    ELSE [x EXCEPT !.phase = IF r.res = "None" THEN "none"
                             ELSE IF r.res = "Err" THEN "err" ELSE "hang",
                   !.err = r.err, !.buffer = <<>>, !.start = 0,
                   !.pos = r.pos, !.hdr_eof = r.eof_at]

\* a poll of the future that reads a page header
PollFor(sc) ==
    /\ rdr.phase = "for"
    /\ \E g \in Garbage :
         rdr' = AfterFor(rdr, ForPoll(rdr.fac, rdr.buffer, rdr.start, rdr.file,
                                      rdr.pos, rdr.limits, g, sc, 0))
    /\ UNCHANGED <<dec, enc, wtr, ctor>>

\* the reader after a poll_read of the page content returned r
AfterRead(x, r) ==
    [x EXCEPT !.d = r.dec, !.pos = r.pos, !.sink = @ \o r.bytes,
              !.phase = IF r.res \in {"Panic", "Hang"} THEN "panic" ELSE @]

\* the caller reads the content of the page with a buffer of b bytes
PageRead(b, sc) ==
    /\ rdr.phase = "page"
    /\ rdr' = AfterRead(rdr, DecPollRead(rdr.d, rdr.file, rdr.pos, b, sc))
    /\ UNCHANGED <<dec, enc, wtr, ctor>>

\* next_page(): the page becomes the future that consumes its content
PageNextPage ==
    /\ rdr.phase = "page"
    /\ rdr' = [rdr EXCEPT !.phase = "next"]
    /\ UNCHANGED <<dec, enc, wtr, ctor>>

\* the reader after the consumer returned c: its error, or the header read
\* of the next page in the same poll
AfterConsume(x, c, sc, garbage) ==
    LET y == [x EXCEPT !.d = c.d, !.pos = c.pos, !.drain_eof = @ \/ c.eof]
    IN  IF c.res = "Pending" THEN y
        ELSE IF c.res # "Ok"
        THEN [y EXCEPT !.phase = IF c.res = "Err" THEN "err" ELSE "panic",
                       !.err = c.err]
        ELSE AfterFor(
                 [y EXCEPT !.d = NoDecoder,
                           !.prev = [d0 |-> x.d0, body_from |-> x.body_from,
                                     left |-> c.d.bytes_remaining,
                                     hdr_from |-> c.pos,
                                     read |-> Len(x.sink)]],
                 ForPoll(x.fac, Zeros(HEADER_SIZE(x.fac)), 0, x.file, c.pos,
                         x.limits, garbage, sc, c.polls))

\* a poll of CommonRasterPageReaderNext in its Consume variant
PollNext(sc) ==
    /\ rdr.phase = "next"
    /\ \E g \in Garbage :
         rdr' = AfterConsume(rdr, ConsumePoll(rdr.d, rdr.file, rdr.pos, sc),
                             sc, g)
    /\ UNCHANGED <<dec, enc, wtr, ctor>>

ReaderNext ==
    \/ \E sc \in Scripts : PollFor(sc)
    \/ \E b \in BufLens, sc \in Scripts : PageRead(b, sc)
    \/ PageNextPage
    \/ \E sc \in Scripts : PollNext(sc)

SpecReader == ReaderInit /\ [][ReaderNext]_vars

\* ------------------------------------------------------------------------
\* Properties of the page reader (SpecReader)
\* ------------------------------------------------------------------------
\* the body of the page consumed last, read over the unrestricted transport
PrevBody == DecReadToEnd(rdr.prev.d0, rdr.file, rdr.prev.body_from, <<>>)

\* body is one that decodes to its end
WellFormed(body) == body.status = "eof" /\ body.d.bytes_remaining = 0

PageOrderOf(x, body) ==
    /\ x.prev.left = 0
    /\ WellFormed(body) => body.pos = x.prev.hdr_from
    /\ x.phase = "page" =>
          /\ x.body_from = x.prev.hdr_from + URF_HEADER_SIZE
          /\ x.header =
               UrfHeaderFromBytes(
                   Slice(x.file, x.prev.hdr_from, URF_HEADER_SIZE)).header

\* C7: read-path page ordering.  When next_page starts to read the next page
\* header, the decoder of the previous page has bytes_remaining = 0; if the
\* previous page body is one that decodes to its end, the header read starts
\* at the first transport byte after that body, whatever part of the body the
\* caller had read; and a page handle produced by next_page carries the
\* header parsed from the bytes at the place where the drain ended.
PageOrder == rdr.prev.hdr_from # -1 => PageOrderOf(rdr, PrevBody)

\* C7 witness: the second page was produced after the caller had read a part
\* of the well-formed body of the first page, but not all of it
SecondPageAfterPartialRead ==
    /\ rdr.phase = "page"
    /\ rdr.pages = 2
    /\ rdr.prev.read > 0
    /\ rdr.prev.read < rdr.prev.d0.bytes_remaining
    /\ WellFormed(PrevBody)

\* C8: clean end of stream.  When the transport returns 0 bytes before any
\* byte of a page header has been read, the next-page future resolves to the
\* none-result and not to an error.
CleanEndOfStream == rdr.hdr_eof = 0 => (rdr.phase = "none" /\ rdr.err = "none")

\* C8 witness: after a page, the transport ended at the first byte of the
\* next page header and no more pages was reported
NoMorePages ==
    /\ rdr.phase = "none"
    /\ rdr.hdr_eof = 0
    /\ rdr.pages > 0

\* C9: truncated page header.  When the transport returns 0 bytes after at
\* least one but fewer than HEADER_SIZE bytes of a page header have been
\* read, the next-page future resolves to an UnexpectedEof error and does
\* not report that there are no more pages.
TruncatedHeaderIsError ==
    (rdr.hdr_eof > 0 /\ rdr.hdr_eof < URF_HEADER_SIZE) =>
        (rdr.phase = "err" /\ rdr.err = "UnexpectedEof")

\* C10: truncated page body on advance.  If the transport reaches the end of
\* input while next_page drains a page whose decoder has bytes_remaining > 0,
\* next_page resolves to an UnexpectedEof error, never to a new page or to
\* the none-result.
TruncatedBodyIsError ==
    rdr.drain_eof => (rdr.phase = "err" /\ rdr.err = "UnexpectedEof")

\* C10 witness: next_page failed with UnexpectedEof on a body cut after the
\* caller had read some of it
DrainHitEndOfInput ==
    /\ rdr.drain_eof
    /\ rdr.phase = "err"
    /\ rdr.err = "UnexpectedEof"
    /\ rdr.d.bytes_remaining > 0
    /\ Len(rdr.sink) > 0

\* ------------------------------------------------------------------------
\* writer/common/mod.rs : CommonRasterPageWriterFor::poll, for a factory F
\* ------------------------------------------------------------------------
WriterResult(c, res, err, e) ==
    [k |-> "done", res |-> res, err |-> err, buffer |-> c.buffer,
     start |-> c.start, out |-> c.out, polls |-> c.polls, enc |-> e]

\* after the loop: F::encode on the transport
WriterEncoded(c, r) ==
    IF r.err # "none" THEN WriterResult(c, "Err", r.err, NoEncoder)
    ELSE WriterResult(c, "Page", "none", r.enc)

\* one turn of the loop that writes the header; the transport, a Vec, takes
\* what sc lets through
WriterStep(F, c, header, garbage, sc) ==
    LET pending == (sc.pend = c.polls + 1)
        left == HEADER_SIZE(F) - c.start
        num_written == Transfer(left, left, sc)
        c1 == [c EXCEPT !.out = @ \o Slice(c.buffer, c.start, num_written),
                        !.start = @ + num_written,
                        !.polls = @ + 1]
    IN  IF pending THEN WriterResult(c, "Pending", "none", NoEncoder)
        ELSE IF c1.start >= HEADER_SIZE(F)
        THEN WriterEncoded(c1, encode(F, header, garbage))
        ELSE IF num_written = 0 THEN WriterResult(c1, "Err", "Other", NoEncoder)
        ELSE Go(c1)

RECURSIVE WriterTurns(_, _, _, _, _, _)
WriterTurns(F, s, header, garbage, sc, fuel) ==
    IF s.k # "go" THEN s
    ELSE IF fuel <= 1 THEN WriterStep(F, s.c, header, garbage, sc)
    ELSE LET mid == WriterTurns(F, s, header, garbage, sc, fuel \div 2)
         IN  IF mid.k # "go" THEN mid
             ELSE WriterTurns(F, mid, header, garbage, sc, fuel - (fuel \div 2))

\* the result of the loop, which runs out of turns only if it never ends
WriterEnd(s) ==
    IF s.k = "go" THEN WriterResult(s.c, "Hang", "hang", NoEncoder) ELSE s

\* the loop over the buffer that h filled, or the error of header_to_bytes,
\* which leaves the buffer as it was allocated
WriterFilled(F, header, h, start, out, garbage, sc) ==
    IF h.err # "none"
    THEN WriterResult([buffer |-> UninitBuffer(HEADER_SIZE(F), garbage),
                       start |-> start, out |-> out, polls |-> 0],
                      "Err", h.err, NoEncoder)
    ELSE WriterEnd(WriterTurns(F, Go([buffer |-> h.bytes, start |-> start,
                                      out |-> out, polls |-> 0]),
                               header, garbage, sc, HEADER_SIZE(F) + 2))

\* CommonRasterPageWriterFor::poll: an empty buffer is filled by
\* header_to_bytes before the loop
WriterForPoll(F, header, buffer, start, out, garbage, sc) ==
    WriterFilled(F, header,
                 IF buffer = <<>> THEN header_to_bytes(F, header)
                 ELSE [err |-> "none", bytes |-> buffer],
                 start, out, garbage, sc)

\* a next_page that does not ask whether bytes remain
WriterNextPoll_NoCheck(F, e, header, out, garbage, sc) ==
    WriterForPoll(F, header, <<>>, 0, out, garbage, sc)

\* a next_page that writes the header of the next page and then refuses
WriterNextPoll_RefusesLate(F, e, header, out, garbage, sc) ==
    IF e.bytes_remaining > 0
    THEN WriterResult([buffer |-> <<>>, start |-> 0,
                       out |-> out \o header_to_bytes(F, header).bytes,
                       polls |-> 1],
                      "Err", "Other", NoEncoder)
    ELSE WriterForPoll(F, header, <<>>, 0, out, garbage, sc)

\* CommonRasterPageWriter::next_page and the poll of its future: the page
\* writer whose encoder is e refuses while bytes remain to be written
WriterNextPoll(F, e, header, out, garbage, sc) ==
    IF e.bytes_remaining > 0
    THEN WriterResult([buffer |-> <<>>, start |-> 0, out |-> out, polls |-> 0],
                      "Err", "Other", NoEncoder)
    ELSE WriterForPoll(F, header, <<>>, 0, out, garbage, sc)

\* ------------------------------------------------------------------------
\* reader/cups/unified/mod.rs, writer/cups/mod.rs, writer/urf/mod.rs : the
\* file headers, over the unrestricted transport
\* ------------------------------------------------------------------------
\* model/cups.rs CupsSyncWord: "RaSt", "tSaR", "RaS2", "2SaR", "RaS3", "3SaR"
CupsSyncWords ==
    << [bytes |-> <<82, 97, 83, 116>>, version |-> 1, order |-> "BE"],
       [bytes |-> <<116, 83, 97, 82>>, version |-> 1, order |-> "LE"],
       [bytes |-> <<82, 97, 83, 50>>, version |-> 2, order |-> "BE"],
       [bytes |-> <<50, 83, 97, 82>>, version |-> 2, order |-> "LE"],
       [bytes |-> <<82, 97, 83, 51>>, version |-> 3, order |-> "BE"],
       [bytes |-> <<51, 83, 97, 82>>, version |-> 3, order |-> "LE"] >>

NoSyncWord == [bytes |-> <<>>, version |-> 0, order |-> "BE"]

\* the discriminant of a sync word, u32::from_ne_bytes of its bytes, on a
\* build whose native byte order is ne
SyncWordValue(w, ne) == ReadU32(ne, w.bytes)

\* a match that takes each word for the other byte order
MatchSyncWord_OrderSwapped(buffer) ==
    LET known == {i \in 1..Len(CupsSyncWords) :
                     CupsSyncWords[i].bytes = buffer}
    IN  IF known = {} THEN NoSyncWord
        ELSE [CupsSyncWords[First(known)] EXCEPT
                 !.order = IF @ = "BE" THEN "LE" ELSE "BE"]

\* `match this.buffer { [b'R', b'a', b'S', b't'] => V1BigEndian, ... }`;
\* NoSyncWord for the arm `_`
MatchSyncWord(buffer) ==
    LET known == {i \in 1..Len(CupsSyncWords) :
                     CupsSyncWords[i].bytes = buffer}
    IN  IF known = {} THEN NoSyncWord ELSE CupsSyncWords[First(known)]

\* CupsRasterReaderReadSyncWord::poll over the unrestricted transport
ReadSyncWord(file) ==
    IF Len(file) < 4
    THEN [err |-> "UnexpectedEof", word |-> NoSyncWord, pos |-> Len(file)]
    ELSE IF MatchSyncWord(SubSeq(file, 1, 4)) = NoSyncWord
    THEN [err |-> "InvalidSyncWord", word |-> NoSyncWord, pos |-> 4]
    ELSE [err |-> "none", word |-> MatchSyncWord(SubSeq(file, 1, 4)), pos |-> 4]

\* WithCupsSyncWord::sync_word of CupsPageFactoryV1, V2 and V3 of an order
SyncWordFor(version, order) ==
    CupsSyncWords[First({i \in 1..Len(CupsSyncWords) :
                            /\ CupsSyncWords[i].version = version
                            /\ CupsSyncWords[i].order = order})]

\* WithCupsSyncWord::sync_word of CupsPageFactoryV2<TOrder>
sync_word(F) == SyncWordFor(2, F.order)

\* CupsRasterWriter::new: (F::sync_word() as u32).to_ne_bytes() is written
CupsRasterWriterNew(F, ne) == WriteU32(ne, SyncWordValue(sync_word(F), ne))

\* UrfWriter::new: the magic and the page count of the header it is given
UrfWriterNew(page_count) == UrfMagic \o U32ToBe(page_count)

\* ------------------------------------------------------------------------
\* print_raster_fuzz : fuzz_urf.rs, fuzz_cups_v2.rs and roundtrip.rs
\* ------------------------------------------------------------------------
\* LIMITS of both harnesses
FuzzLimits == [bytes_per_line |-> 8000 * 3, bytes_per_page |-> 8000 * 8000 * 3]

\* `if page_count > 300`
PageCap == 300

\* UrfReader::new_with_limits or CupsRasterUnifiedReader::new_with_limits on
\* the input of the harness of this kind
OpenReader(kind, file) ==
    IF kind = "urf"
    THEN [err |-> UrfReaderNew(file).err, fac |-> UrfPageFactory,
          pos |-> UrfReaderNew(file).pos,
          page_count |-> UrfReaderNew(file).page_count, version |-> 2]
    ELSE [err |-> ReadSyncWord(file).err,
          fac |-> CupsPageFactoryV2(ReadSyncWord(file).word.order),
          pos |-> ReadSyncWord(file).pos,
          page_count |-> 0, version |-> ReadSyncWord(file).word.version]

\* the first bytes of the output: UrfWriter::new(output, reader.header()), or
\* the CUPS V2 writer of reader.byte_order()
OpenWriter(kind, opened, ne) ==
    IF kind = "urf" THEN UrfWriterNew(opened.page_count)
    ELSE CupsRasterWriterNew(opened.fac, ne)

\* every page of a file, read by a caller that reads each page to its end
\* before it asks for the next: the pages, and "ok" if the input ended
\* between two pages after bodies that decoded to their end
RECURSIVE ReadPages(_, _, _, _)
RECURSIVE ReadPage(_, _, _, _)
RECURSIVE ReadBody(_, _, _, _, _)
ReadPages(F, file, pos, pages) ==
    ReadPage(F, file, pages,
             ForPoll(F, Zeros(HEADER_SIZE(F)), 0, file, pos, FuzzLimits,
                     0, NoPend, 0))

ReadPage(F, file, pages, r) ==
    IF r.res = "Page"
    THEN ReadBody(F, file, pages, r.header,
                  DecReadToEnd(r.dec, file, r.pos, <<>>))
    ELSE [status |-> IF r.res = "None" /\ r.eof_at = 0 THEN "ok" ELSE "bad",
          pages |-> pages]

ReadBody(F, file, pages, header, body) ==
    IF WellFormed(body)
    THEN ReadPages(F, file, body.pos,
                   Append(pages, [header |-> header, pixels |-> body.sink]))
    ELSE [status |-> "bad", pages |-> pages]

\* what was read of a file: its pages and the page count of a URF header
ReadWith(page_count, r) ==
    [status |-> r.status, pages |-> r.pages, page_count |-> page_count]

ReadOpened(o, file) ==
    IF o.err # "none" \/ o.version # 2
    THEN [status |-> "bad", pages |-> <<>>, page_count |-> 0]
    ELSE ReadWith(o.page_count, ReadPages(o.fac, file, o.pos, <<>>))

ReadAll(kind, file) == ReadOpened(OpenReader(kind, file), file)

\* bytes of input files, written out byte by byte
RawUrfFileHeader(page_count) == <<85, 78, 73, 82, 65, 83, 84, 0, 0, 0, 0, page_count>>

RawUrfHeader(bits_per_pixel, color_space, duplex, width, height, pad) ==
    <<bits_per_pixel, color_space, duplex, 0, 0, 0>>
        \o [i \in 1..6 |-> pad]
        \o <<0, 0, 0, width, 0, 0, 0, height, 0, 0, 0, 1>>
        \o [i \in 1..8 |-> pad]

\* two lines of two runs of one pixel, which a greedy encoder joins
BodySplitRuns == <<0, 0, 7, 0, 7, 0, 0, 7, 0, 7>>

TripUrfFiles ==
    { RawUrfFileHeader(0),
      RawUrfFileHeader(1) \o RawUrfHeader(8, 0, 1, 2, 2, 0) \o BodyRun,
      RawUrfFileHeader(2) \o RawUrfHeader(8, 0, 1, 2, 2, 9) \o BodyRun
                          \o RawUrfHeader(8, 0, 2, 2, 2, 0) \o BodyFill,
      RawUrfFileHeader(2) \o RawUrfHeader(8, 0, 1, 2, 2, 0) \o BodySplitRuns
                          \o RawUrfHeader(8, 6, 1, 2, 2, 0) \o BodyFill,
      RawUrfFileHeader(1) \o RawUrfHeader(16, 1, 1, 1, 2, 0) \o <<1, 0, 5, 6>>,
      RawUrfFileHeader(7) \o RawUrfHeader(24, 1, 3, 1, 1, 0) \o <<0, 0, 1, 2, 3>>
                          \o RawUrfHeader(1, 0, 1, 2, 2, 0),
      RawUrfFileHeader(2) \o RawUrfHeader(8, 0, 1, 2, 2, 0) \o BodyOverrun
                          \o RawUrfHeader(8, 0, 1, 2, 2, 0) \o BodyRun,
      RawUrfFileHeader(1) \o RawUrfHeader(8, 0, 1, 2, 2, 0) \o <<0, 0>>,
      RawUrfFileHeader(2) \o RawUrfHeader(8, 0, 1, 2, 2, 0) \o BodyRun
                          \o RawUrfHeader(8, 0, 0, 2, 2, 0) \o BodyRun,
      RawUrfFileHeader(1) \o RawUrfHeader(8, 0, 1, 2, 2, 0) \o BodyRun \o <<8>> }

\* a u32 below 256 and the f32 1.0 in the bytes of a CUPS header
Word(order, v) == IF order = "BE" THEN <<0, 0, 0, v>> ELSE <<v, 0, 0, 0>>

One(order) == IF order = "BE" THEN <<63, 128, 0, 0>> ELSE <<0, 0, 128, 63>>

RECURSIVE Patch(_, _)
Patch(buf, patches) ==
    IF patches = <<>> THEN buf
    ELSE Patch(WriteAt(buf, Head(patches)[1], Head(patches)[2]), Tail(patches))

\* a chunky page of 2 x 2 pixels of one sGray byte: media_class "A" with a
\* byte after its NUL, media_color of 64 bytes without a NUL, collate true
\* as 0x00020000, borderless_scaling_factor 1.0, vendor_u32[1] 3, a
\* vendor_str that is not UTF-8 and marker_type "\u{e9}"
RawCupsChunky(order) ==
    Patch(Zeros(CUPS_V2_HEADER_SIZE),
          << <<0, <<65, 0, 66>>>>, <<64, [i \in 1..CUPS_STRING_SIZE |-> 97]>>,
             <<264, <<0, 2, 0, 0>>>>,
             <<372, Word(order, 2)>>, <<376, Word(order, 2)>>,
             <<384, Word(order, 8)>>, <<388, Word(order, 8)>>,
             <<392, Word(order, 2)>>, <<400, Word(order, 18)>>,
             <<424, One(order)>>, <<456, Word(order, 3)>>,
             <<580, <<255, 65>>>>, <<1604, <<195, 169>>>> >>)

\* a planar page of 1 x 1 pixel of three colors, num_colors left 0
RawCupsPlanar(order) ==
    Patch(Zeros(CUPS_V2_HEADER_SIZE),
          << <<372, Word(order, 1)>>, <<376, Word(order, 1)>>,
             <<384, Word(order, 8)>>, <<388, Word(order, 24)>>,
             <<392, Word(order, 1)>>, <<396, Word(order, 2)>>,
             <<400, Word(order, 1)>> >>)

BodyPlanes == <<2, 0, 5>>

RawSyncWord(order) == IF order = "BE" THEN <<82, 97, 83, 50>> ELSE <<50, 83, 97, 82>>

TripCupsFiles ==
    { RawSyncWord("BE"),
      RawSyncWord("BE") \o RawCupsChunky("BE") \o BodyFill
                        \o RawCupsPlanar("BE") \o BodyPlanes,
      RawSyncWord("LE") \o RawCupsChunky("LE") \o BodyRun
                        \o RawCupsChunky("LE") \o BodySplitRuns,
      RawSyncWord("LE") \o RawCupsPlanar("LE") \o BodyPlanes,
      RawSyncWord("BE") \o RawCupsChunky("BE") \o BodyOverrun,
      RawSyncWord("LE") \o RawCupsChunky("BE") \o BodyRun,
      RawSyncWord("BE") \o RawCupsPlanar("BE") \o <<2>>,
      RawSyncWord("LE") \o RawCupsChunky("LE") \o BodyRun \o <<0, 0, 0>> }

TripFiles(kind) == IF kind = "urf" THEN TripUrfFiles ELSE TripCupsFiles

\* main of a harness on a build of native byte order ne: the reader is made
\* of the input (a failure ends the run before any page), then the writer of
\* the output; roundtrip_raster is about to ask for the first page
TripInit ==
    /\ \E kind \in {"urf", "cups"}, ne \in {"BE", "LE"} :
         \E file \in TripFiles(kind) :
            /\ OpenReader(kind, file).err = "none"
            /\ OpenReader(kind, file).version = 2
            /\ rdr = [fac |-> OpenReader(kind, file).fac,
                      file |-> file, pos |-> OpenReader(kind, file).pos,
                      limits |-> FuzzLimits,
                      phase |-> "for", err |-> "none",
                      buffer |-> Zeros(HEADER_SIZE(OpenReader(kind, file).fac)),
                      start |-> 0,
                      header |-> NoHeader, d |-> NoDecoder,
                      sink |-> <<>>, pages |-> 0,
                      hdr_eof |-> -1, drain_eof |-> FALSE,
                      d0 |-> NoDecoder, body_from |-> -1,
                      prev |-> NoPrev]
            /\ wtr = [kind |-> kind, native |-> ne, pc |-> "reader_next_page",
                      out |-> OpenWriter(kind, OpenReader(kind, file), ne),
                      e |-> NoEncoder, paged |-> FALSE, chunk |-> <<>>,
                      page_count |-> 0, err |-> "none"]
    /\ dec = Idle /\ enc = Idle /\ ctor = Idle

\* the harness after a next_page future left the reader as x: `?` returns
\* the error, Some(page) goes on, None ends the run with Ok(())
TripAfterNextPage(w, x) ==
    [w EXCEPT !.pc = IF x.phase = "page" THEN "writer_next_page"
                     ELSE IF x.phase = "none" THEN "done"
                     ELSE IF x.phase = "err" THEN "failed"
                     ELSE IF x.phase = "panic" THEN "panic" ELSE "hang",
              !.err = x.err]

\* reader.next_page().await?
TripReaderNextPage ==
    /\ wtr.pc = "reader_next_page"
    /\ \E g \in Garbage :
         rdr' = AfterFor(rdr, ForPoll(rdr.fac, rdr.buffer, rdr.start, rdr.file,
                                      rdr.pos, rdr.limits, g, NoPend, 0))
    /\ wtr' = TripAfterNextPage(wtr, rdr')
    /\ UNCHANGED <<dec, enc, ctor>>

\* the harness after a next_page future of the writer returned r: unwrap
TripAfterWriter(w, r) ==
    IF r.res = "Page"
    THEN [w EXCEPT !.pc = "read", !.out = r.out, !.e = r.enc, !.paged = TRUE,
                   !.page_count = @ + 1]
    ELSE [w EXCEPT !.pc = IF r.res = "Hang" THEN "hang" ELSE "panic",
                   !.out = r.out, !.err = r.err, !.page_count = @ + 1]

\* page_count += 1, the check of it for every page but the first, and
\* writer.next_page(header) or page_writer.next_page(header), unwrapped
TripWriterNextPage ==
    /\ wtr.pc = "writer_next_page"
    /\ IF wtr.paged /\ wtr.page_count + 1 > PageCap
       THEN wtr' = [wtr EXCEPT !.pc = "failed", !.err = "page_count > 300",
                               !.page_count = @ + 1]
       ELSE \E g \in Garbage :
              wtr' = TripAfterWriter(
                         wtr,
                         IF wtr.paged
                         THEN WriterNextPoll(rdr.fac, wtr.e, rdr.header,
                                             wtr.out, g, NoPend)
                         ELSE WriterForPoll(rdr.fac, rdr.header, <<>>, 0,
                                            wtr.out, g, NoPend))
    /\ UNCHANGED <<dec, enc, rdr, ctor>>

\* the harness after content_mut().read(&mut buffer).await? returned r
TripAfterRead(w, r) ==
    IF r.res = "Ok"
    THEN [w EXCEPT !.pc = IF r.n = 0 THEN "page_next_page" ELSE "write",
                   !.chunk = r.bytes]
    ELSE [w EXCEPT !.pc = IF r.res = "Err" THEN "failed"
                          ELSE IF r.res = "Panic" THEN "panic" ELSE "hang",
                   !.err = r.err]

\* a read of the page content into the buffer of 4096 bytes
TripRead ==
    /\ wtr.pc = "read"
    /\ rdr' = AfterRead(rdr, DecPollRead(rdr.d, rdr.file, rdr.pos, ScratchLen,
                                         NoPend))
    /\ wtr' = TripAfterRead(wtr, DecPollRead(rdr.d, rdr.file, rdr.pos,
                                             ScratchLen, NoPend))
    /\ UNCHANGED <<dec, enc, ctor>>

\* the harness after write_all(&buffer[..n_read]).await.unwrap()
TripAfterWrite(w, r) ==
    [w EXCEPT !.pc = IF r.status = "done" THEN "read"
                     ELSE IF r.status = "Hang" THEN "hang" ELSE "panic",
              !.e = r.e, !.out = r.out, !.chunk = <<>>]

\* write_all of the bytes just read into the encoder of the page
TripWrite ==
    /\ wtr.pc = "write"
    /\ wtr' = TripAfterWrite(wtr, EncWriteAll(wtr.e, wtr.out, wtr.chunk, 0))
    /\ UNCHANGED <<dec, enc, rdr, ctor>>

\* page_reader.next_page().await?
TripPageNextPage ==
    /\ wtr.pc = "page_next_page"
    /\ \E g \in Garbage :
         rdr' = AfterConsume(rdr, ConsumePoll(rdr.d, rdr.file, rdr.pos, NoPend),
                             NoPend, g)
    /\ wtr' = TripAfterNextPage(wtr, rdr')
    /\ UNCHANGED <<dec, enc, ctor>>

TripNext ==
    \/ TripReaderNextPage
    \/ TripWriterNextPage
    \/ TripRead
    \/ TripWrite
    \/ TripPageNextPage

SpecTrip == TripInit /\ [][TripNext]_vars

\* ------------------------------------------------------------------------
\* Properties of the round trip (SpecTrip)
\* ------------------------------------------------------------------------
\* from is well formed and has no more pages than the harness passes, so
\* that every page of it is read and written
WholeFile(from) == from.status = "ok" /\ Len(from.pages) <= PageCap

RoundTripOf(w, from, back) ==
    WholeFile(from) =>
        /\ w.pc \notin {"failed", "panic", "hang"}
        /\ w.pc = "done" => back = from

\* C6: round trip decoder -> encoder.  For a well-formed CUPS V2 or URF file
\* whose pages are all read and written, reading every page and writing its
\* header and its decoded bytes through the writer of the same variant never
\* fails, and the output, read again, is well formed and yields the same
\* number of pages with the same page headers and the same decoded pixels
\* (and, for URF, the same page count in the file header).
RoundTripFaithful ==
    RoundTripOf(wtr, ReadAll(wtr.kind, rdr.file), ReadAll(wtr.kind, wtr.out))

RoundTripAt(w, x, from) ==
    /\ w.pc = "done"
    /\ WholeFile(from)
    /\ Len(from.pages) = 2
    /\ w.out # x.file

\* C6 witness: the round trip of a well-formed file of two pages ended, with
\* an output that is not the input byte for byte
RoundTripDone == RoundTripAt(wtr, rdr, ReadAll(wtr.kind, rdr.file))

\* ------------------------------------------------------------------------
\* writer/urf/mod.rs : UrfWriteHeaderFuture::poll, and
\* writer/common/mod.rs : CommonRasterPageWriter::finish
\* ------------------------------------------------------------------------
UrfWriteHeaderResult(c, res, err) ==
    [k |-> "done", res |-> res, err |-> err, num_written |-> c.num_written,
     out |-> c.out, polls |-> c.polls]

\* the transport took num_written bytes of buffer[num_written..]
UrfWriteHeaderTook(c, num_written) ==
    [c EXCEPT !.out = @ \o Slice(c.buffer, c.num_written, num_written),
              !.num_written = @ + num_written,
              !.polls = @ + 1]

UrfWriteHeaderWritten(c, num_written) ==
    IF c.num_written + num_written >= Len(c.buffer)
    THEN UrfWriteHeaderResult(UrfWriteHeaderTook(c, num_written), "Ok", "none")
    ELSE IF num_written = 0
    THEN UrfWriteHeaderResult(UrfWriteHeaderTook(c, num_written), "Err", "Other")
    ELSE Go(UrfWriteHeaderTook(c, num_written))

\* one turn of the loop that writes the 12 bytes of the file header
UrfWriteHeaderStep(c, sc) ==
    IF sc.pend = c.polls + 1 THEN UrfWriteHeaderResult(c, "Pending", "none")
    ELSE UrfWriteHeaderWritten(c, Transfer(Len(c.buffer) - c.num_written,
                                           Len(c.buffer) - c.num_written, sc))

RECURSIVE UrfWriteHeaderTurns(_, _, _)
UrfWriteHeaderTurns(s, sc, fuel) ==
    IF s.k # "go" THEN s
    ELSE IF fuel <= 1 THEN UrfWriteHeaderStep(s.c, sc)
    ELSE UrfWriteHeaderTurns(UrfWriteHeaderTurns(s, sc, fuel \div 2), sc,
                             fuel - (fuel \div 2))

UrfWriteHeaderEnd(s) ==
    IF s.k = "go" THEN UrfWriteHeaderResult(s.c, "Hang", "hang") ELSE s

UrfWriteHeaderPoll(buffer, num_written, out, sc) ==
    UrfWriteHeaderEnd(
        UrfWriteHeaderTurns(Go([buffer |-> buffer, num_written |-> num_written,
                                out |-> out, polls |-> 0]),
                            sc, Len(buffer) + 2))

\* a finish that answers for the missing bytes before it closes
WriterFinishPoll_ChecksFirst(not_all_bytes_written, close) ==
    IF not_all_bytes_written
    THEN [res |-> "Err", err |-> "Other", closes |-> 0, closed |-> FALSE]
    ELSE IF close = "Pending"
    THEN [res |-> "Pending", err |-> "none", closes |-> 1, closed |-> FALSE]
    ELSE IF close = "Err"
    THEN [res |-> "Err", err |-> "Transport", closes |-> 1, closed |-> FALSE]
    ELSE [res |-> "Ok", err |-> "none", closes |-> 1, closed |-> TRUE]

\* CommonRasterPageWriterFinish::poll: `close` is what poll_close of the
\* transport returns to this poll
WriterFinishPoll(not_all_bytes_written, close) ==
    IF close = "Pending"
    THEN [res |-> "Pending", err |-> "none", closes |-> 1, closed |-> FALSE]
    ELSE IF close = "Err"
    THEN [res |-> "Err", err |-> "Transport", closes |-> 1, closed |-> FALSE]
    ELSE IF not_all_bytes_written
    THEN [res |-> "Err", err |-> "Other", closes |-> 1, closed |-> TRUE]
    ELSE [res |-> "Ok", err |-> "none", closes |-> 1, closed |-> TRUE]

\* ------------------------------------------------------------------------
\* A caller writing a URF file page by page (print_raster/tests/pwg2urf.rs)
\* over a transport that may return Pending, take one byte at a time and
\* fail to close
\* ------------------------------------------------------------------------
\* a page of 1 x 2 pixels of two bytes, and a page of pixels of one bit,
\* which has no bytes
WideHeader == [SmallHeader EXCEPT !.bits_per_pixel = 16, !.width = 1]

BitHeader == [SmallHeader EXCEPT !.bits_per_pixel = 1]

\* the documents written: the page headers and the pixels of each page
WriterDocs ==
    { << [header |-> SmallHeader, body |-> <<7, 7, 7, 9>>] >>,
      << [header |-> SmallHeader, body |-> <<0, 0, 0, 0>>],
         [header |-> WideHeader, body |-> <<1, 2, 1, 2>>] >>,
      << [header |-> BitHeader, body |-> <<>>],
         [header |-> SmallHeader, body |-> <<5, 5, 6, 6>>] >> }

WriterInit ==
    /\ \E doc \in WriterDocs : \E page_count \in {0, Len(doc)} :
          wtr = [pc |-> "new", op |-> "new", doc |-> doc,
                 page_count |-> page_count, out |-> <<>>,
                 num_written |-> 0, buffer |-> <<>>, start |-> 0,
                 pages |-> 0, e |-> NoEncoder, written |-> 0, offered |-> 0,
                 not_all_bytes_written |-> FALSE, closes |-> 0,
                 closed |-> FALSE, err |-> "none"]
    /\ dec = Idle /\ enc = Idle /\ rdr = Idle /\ ctor = Idle

WriterFailed(w, r) ==
    [w EXCEPT !.pc = IF r.res = "Err" THEN "failed"
                     ELSE IF r.res = "Panic" THEN "panic" ELSE "hang",
              !.out = r.out, !.err = r.err]

\* the caller after a poll of UrfWriter::new returned r
WriterAfterNew(w, r) ==
    IF r.res = "Ok" THEN [w EXCEPT !.pc = "writer", !.out = r.out,
                                   !.num_written = r.num_written]
    ELSE IF r.res = "Pending" THEN [w EXCEPT !.out = r.out,
                                             !.num_written = r.num_written]
    ELSE WriterFailed(w, r)

\* UrfWriter::new(writer, &UrfHeader { page_count }).await
FileNew(sc) ==
    /\ wtr.pc = "new"
    /\ wtr' = WriterAfterNew(wtr, UrfWriteHeaderPoll(UrfWriterNew(wtr.page_count),
                                                     wtr.num_written, wtr.out,
                                                     sc))
    /\ UNCHANGED <<dec, enc, rdr, ctor>>

\* the caller after a poll of a next_page future returned r
WriterAfterFor(w, op, r) ==
    IF r.res = "Page"
    THEN [w EXCEPT !.pc = "page", !.op = op, !.out = r.out, !.e = r.enc,
                   !.pages = @ + 1, !.written = 0, !.offered = 0,
                   !.buffer = <<>>, !.start = 0]
    ELSE IF r.res = "Pending"
    THEN [w EXCEPT !.pc = "for", !.op = op, !.out = r.out,
                   !.buffer = r.buffer, !.start = r.start]
    ELSE [WriterFailed(w, r) EXCEPT !.op = op]

\* writer.next_page(header).await, and the later polls of the future of
\* either next_page
FileNextPage(sc) ==
    /\ wtr.pc \in {"writer", "for"}
    /\ wtr.pages < Len(wtr.doc)
    /\ \E g \in Garbage :
         wtr' = WriterAfterFor(wtr, "next_page",
                    WriterForPoll(UrfPageFactory,
                                  wtr.doc[wtr.pages + 1].header,
                                  wtr.buffer, wtr.start, wtr.out, g, sc))
    /\ UNCHANGED <<dec, enc, rdr, ctor>>

\* page_writer.next_page(header).await, first poll
FilePageNextPage(sc) ==
    /\ wtr.pc = "page"
    /\ wtr.pages < Len(wtr.doc)
    /\ \E g \in Garbage :
         wtr' = WriterAfterFor(wtr, "page_next_page",
                    WriterNextPoll(UrfPageFactory, wtr.e,
                                   wtr.doc[wtr.pages + 1].header,
                                   wtr.out, g, sc))
    /\ UNCHANGED <<dec, enc, rdr, ctor>>

\* the caller after a poll_write of len bytes returned r
WriterAfterWrite(w, len, r) ==
    IF r.res = "Ok" /\ r.n > 0
    THEN [w EXCEPT !.op = "write", !.out = r.out, !.e = r.e,
                   !.written = @ + r.n, !.offered = 0]
    ELSE IF r.res = "Pending"
    THEN [w EXCEPT !.op = "write", !.out = r.out, !.e = r.e,
                   !.offered = len]
    ELSE [w EXCEPT !.op = "write", !.out = r.out, !.e = r.e,
                   !.pc = IF r.res \in {"Ok", "Err"} THEN "failed"
                          ELSE IF r.res = "Panic" THEN "panic" ELSE "hang",
                   !.err = IF r.res = "Ok" THEN "WriteZero" ELSE r.err]

\* the pixels of the page being written
WriterBody == wtr.doc[wtr.pages].body

\* page_writer.content_mut() is offered the next len bytes of the page;
\* after Pending it is offered the same bytes again
FileWrite(len, sc) ==
    /\ wtr.pc = "page"
    /\ wtr.written < Len(WriterBody)
    /\ len <= Len(WriterBody) - wtr.written
    /\ wtr.offered # 0 => len = wtr.offered
    /\ wtr' = WriterAfterWrite(wtr, len,
                  EncPollWrite(wtr.e, wtr.out,
                               SubSeq(WriterBody, wtr.written + 1,
                                      wtr.written + len),
                               sc))
    /\ UNCHANGED <<dec, enc, rdr, ctor>>

\* the caller after a poll of the finish future returned r
WriterAfterFinish(w, not_all_bytes_written, r) ==
    [w EXCEPT !.pc = IF r.res = "Ok" THEN "finished"
                     ELSE IF r.res = "Pending" THEN "finish" ELSE "failed",
              !.op = "finish",
              !.not_all_bytes_written = not_all_bytes_written,
              !.closes = @ + r.closes,
              !.closed = r.closed,
              !.err = r.err]

\* page_writer.finish().await: finish() notes whether bytes remain, every
\* poll of its future closes the transport first
FilePageFinish(close) ==
    /\ wtr.pc \in {"page", "finish"}
    /\ close = "Pending" => wtr.closes < MaxPend
    /\ wtr' = WriterAfterFinish(
                  wtr,
                  IF wtr.pc = "page" THEN wtr.e.bytes_remaining > 0
                  ELSE wtr.not_all_bytes_written,
                  WriterFinishPoll(IF wtr.pc = "page"
                                   THEN wtr.e.bytes_remaining > 0
                                   ELSE wtr.not_all_bytes_written,
                                   close))
    /\ UNCHANGED <<dec, enc, rdr, ctor>>

\* writer.finish().await of a UrfWriter that wrote no page: Ok at once
FileFinish ==
    /\ wtr.pc = "writer"
    /\ wtr' = [wtr EXCEPT !.pc = "finished", !.op = "writer_finish"]
    /\ UNCHANGED <<dec, enc, rdr, ctor>>

\* the buffers the caller offers: all the rest of the page, as
\* futures::io::copy may, or its first bytes alone
WriterLens ==
    IF wtr.pc = "page"
    THEN {Len(WriterBody) - wtr.written}
            \cup {n \in 1..MaxBuf : n <= Len(WriterBody) - wtr.written}
    ELSE {}

WriterNext ==
    \/ \E sc \in Scripts : FileNew(sc)
    \/ \E sc \in Scripts : FileNextPage(sc)
    \/ \E sc \in Scripts : FilePageNextPage(sc)
    \/ \E len \in WriterLens, sc \in Scripts : FileWrite(len, sc)
    \/ \E close \in {"Ok", "Pending", "Err"} : FilePageFinish(close)
    \/ FileFinish

SpecWriter == WriterInit /\ [][WriterNext]_vars

\* ------------------------------------------------------------------------
\* Properties of the page writer (SpecWriter)
\* ------------------------------------------------------------------------
\* C11: finish on a page writer.  Every poll of the finish future calls
\* close on the transport; the future returns Ok only if close succeeded
\* and the encoder had bytes_remaining == 0, and an error otherwise: the
\* error of close, or after a successful close "not all bytes are written"
\* for bytes_remaining > 0.
FinishChecksBytes ==
    wtr.op = "finish" =>
        /\ wtr.pc \in {"finish", "finished", "failed"}
        /\ wtr.closes >= 1
        /\ wtr.not_all_bytes_written = (wtr.e.bytes_remaining > 0)
        /\ wtr.pc = "finish" => ~wtr.closed
        /\ wtr.pc = "finished" =>
              /\ wtr.closed
              /\ wtr.e.bytes_remaining = 0
        /\ wtr.pc = "failed" =>
              \/ ~wtr.closed /\ wtr.err = "Transport"
              \/ wtr.closed /\ wtr.err = "Other" /\ wtr.e.bytes_remaining > 0

\* C11 witness: finish in the middle of a page closed the transport and
\* failed
FinishRefusedAfterClose ==
    /\ wtr.op = "finish"
    /\ wtr.pc = "failed"
    /\ wtr.closed
    /\ wtr.written > 0
    /\ wtr.e.bytes_remaining > 0

\* header and encoded body of a page, as one write_all over the
\* unrestricted transport makes it
PageBytes(p, g) ==
    UrfHeaderToBytes(p.header)
        \o EncWriteAll(UrfEncode(p.header, g).enc, <<>>, p.body, 0).out

\* the file of the first n pages of a document
RECURSIVE FileBytes(_, _, _, _)
FileBytes(doc, page_count, n, g) ==
    IF n = 0 THEN UrfWriterNew(page_count)
    ELSE FileBytes(doc, page_count, n - 1, g) \o PageBytes(doc[n], g)

FramedIn(w, whole, before, upto) ==
    /\ IsPrefix(w.out, whole)
    /\ w.pc = "new" => Len(w.out) = w.num_written /\ Len(w.out) < URF_FILE_HEADER_SIZE
    /\ w.pc # "new" => Len(w.out) >= URF_FILE_HEADER_SIZE
    /\ w.pc = "writer" => Len(w.out) = URF_FILE_HEADER_SIZE
    /\ w.pc = "for" =>
          /\ Len(w.out) = upto + w.start
          /\ w.start < URF_HEADER_SIZE
    /\ w.pc = "page" =>
          /\ Len(w.out) >= before + URF_HEADER_SIZE
          /\ Len(w.out) <= upto
          /\ w.e.bytes_remaining = 0 => Len(w.out) = upto

\* C12: write-path framing order.  What the transport has received is
\* always a prefix of the file header followed by the header and the
\* encoded body of each page in order, and it only grows; the file header
\* is complete before the writer exists, a page header is complete before
\* its page writer exists, and the header of the next page starts where
\* the encoded body of the page before it ends.
FramingOrder ==
    /\ [](\A g \in Garbage :
             FramedIn(wtr, FileBytes(wtr.doc, wtr.page_count, Len(wtr.doc), g),
                      Len(FileBytes(wtr.doc, wtr.page_count,
                                    SatSub(wtr.pages, 1), g)),
                      Len(FileBytes(wtr.doc, wtr.page_count, wtr.pages, g))))
    /\ [][IsPrefix(wtr.out, wtr'.out)]_vars

\* C12 witness: the second page writer of a document exists, after a
\* next_page future that was suspended inside the page header
SecondPageFramed ==
    /\ wtr.pc = "page"
    /\ wtr.pages = 2
    /\ wtr.op = "next_page"
    /\ wtr.written = 0
    /\ Len(wtr.out) > URF_FILE_HEADER_SIZE + 2 * URF_HEADER_SIZE

\* ------------------------------------------------------------------------
\* reader/cups/unified/mod.rs : CupsRasterReaderReadSyncWord::poll,
\* reader/urf/mod.rs : UrfReaderReadHeaderFuture::poll, and
\* writer/cups/mod.rs : CupsRasterWriterWriteSyncWord::poll
\* ------------------------------------------------------------------------
\* `while !buffer.is_empty()` of both read futures: the transport fills
\* buffer[num_read..] until it is full, pends, or has no byte left
RECURSIVE FillBuffer(_, _, _, _, _, _)
FillBuffer(buffer, num_read, file, pos, sc, polls) ==
    IF num_read = Len(buffer)
    THEN [res |-> "Full", buffer |-> buffer, num_read |-> num_read, pos |-> pos]
    ELSE IF sc.pend = polls + 1
    THEN [res |-> "Pending", buffer |-> buffer, num_read |-> num_read,
          pos |-> pos]
    ELSE IF Transfer(Len(buffer) - num_read, Len(file) - pos, sc) = 0
    THEN [res |-> "Eof", buffer |-> buffer, num_read |-> num_read, pos |-> pos]
    ELSE FillBuffer(
             WriteAt(buffer, num_read,
                     Slice(file, pos,
                           Transfer(Len(buffer) - num_read, Len(file) - pos, sc))),
             num_read + Transfer(Len(buffer) - num_read, Len(file) - pos, sc),
             file,
             pos + Transfer(Len(buffer) - num_read, Len(file) - pos, sc),
             sc, polls + 1)

\* what a read future returns once its loop has ended with f
HeadRead(f, res, err, word, page_count) ==
    [res |-> res, err |-> err, word |-> word, page_count |-> page_count,
     buffer |-> f.buffer, num_read |-> f.num_read, pos |-> f.pos]

ReadSyncWordDone(f) ==
    IF f.res = "Pending" THEN HeadRead(f, "Pending", "none", NoSyncWord, 0)
    ELSE IF f.res = "Eof" THEN HeadRead(f, "Err", "UnexpectedEof", NoSyncWord, 0)
    ELSE IF MatchSyncWord(f.buffer) = NoSyncWord
    THEN HeadRead(f, "Err", "InvalidSyncWord", NoSyncWord, 0)
    ELSE HeadRead(f, "Ok", "none", MatchSyncWord(f.buffer), 0)

\* CupsRasterReaderReadSyncWord::poll
ReadSyncWordPoll(buffer, num_read, file, pos, sc) ==
    ReadSyncWordDone(FillBuffer(buffer, num_read, file, pos, sc, 0))

\* a magic check that looks at the first byte only
UrfMagicError_FirstByte(buffer) == buffer[1] # UrfMagic[1]

\* `this.buffer[0..8] != *b"UNIRAST\0"`
UrfMagicError(buffer) == SubSeq(buffer, 1, 8) # UrfMagic

UrfReadHeaderDone(f) ==
    IF f.res = "Pending" THEN HeadRead(f, "Pending", "none", NoSyncWord, 0)
    ELSE IF f.res = "Eof" THEN HeadRead(f, "Err", "UnexpectedEof", NoSyncWord, 0)
    ELSE IF UrfMagicError(f.buffer)
    THEN HeadRead(f, "Err", "InvalidMagic", NoSyncWord, 0)
    ELSE HeadRead(f, "Ok", "none", NoSyncWord, U32FromBe(f.buffer, 8))

\* UrfReaderReadHeaderFuture::poll
UrfReadHeaderPoll(buffer, num_read, file, pos, sc) ==
    UrfReadHeaderDone(FillBuffer(buffer, num_read, file, pos, sc, 0))

\* CupsRasterWriterWriteSyncWord::poll: the loop of UrfWriteHeaderFuture::poll
\* over a buffer of 4 bytes
WriteSyncWordPoll(buffer, num_written, out, sc) ==
    UrfWriteHeaderPoll(buffer, num_written, out, sc)

\* the bytes CupsRasterWriter::<F, W>::new writes for the factory of a
\* version and an order on a build whose native byte order is ne
SyncWordBytes(version, order, ne) ==
    WriteU32(ne, SyncWordValue(SyncWordFor(version, order), ne))

\* ------------------------------------------------------------------------
\* A caller opening a file: a writer is constructed and finished without a
\* page and a reader is constructed over what it wrote, or a reader is
\* constructed over bytes of any origin
\* ------------------------------------------------------------------------
\* page counts whose four bytes differ
PageCounts == {0, 1, 2, 258, 16909060}

\* every file that differs from bytes in one position, where it holds 'X'
\* (a byte no sync word and no magic holds), and bytes itself
OneOff(bytes) ==
    {bytes} \cup {[bytes EXCEPT ![i] = 88] : i \in 1..Len(bytes)}

\* every prefix of a file, and the file with one more byte
Cuts(bytes) ==
    {SubSeq(bytes, 1, n) : n \in 0..Len(bytes)} \cup {Append(bytes, 88)}

\* input of a CUPS reader: the sync words, whole, cut, and with a stray byte;
\* the words of one version with the bytes of another order inside
CupsHeads ==
    UNION {Cuts(CupsSyncWords[i].bytes) \cup OneOff(CupsSyncWords[i].bytes) :
              i \in 1..Len(CupsSyncWords)}
        \cup {<<82, 97, 83, 52>>, <<116, 83, 97, 50>>, <<83, 97, 82, 116>>}

\* input of a URF reader: file headers whole, cut, and with a stray byte
UrfHeads ==
    UNION {OneOff(UrfWriterNew(n)) : n \in PageCounts}
        \cup Cuts(UrfWriterNew(2))

NoWriter == [status |-> "idle"]

HeadReader(kind, file) ==
    [status |-> "new", kind |-> kind, file |-> file,
     buffer |-> Zeros(IF kind = "urf" THEN URF_FILE_HEADER_SIZE ELSE 4),
     num_read |-> 0, pos |-> 0, err |-> "none", word |-> NoSyncWord,
     page_count |-> 0, pended |-> FALSE]

HeadWriter(kind, version, order, ne, page_count) ==
    [status |-> "new", kind |-> kind, version |-> version, order |-> order,
     ne |-> ne, page_count |-> page_count,
     buffer |-> IF kind = "urf" THEN UrfWriterNew(page_count)
                ELSE SyncWordBytes(version, order, ne),
     num_written |-> 0, out |-> <<>>, err |-> "none", pended |-> FALSE]

HeadInit ==
    /\ \/ /\ wtr = NoWriter
          /\ \/ \E file \in CupsHeads : rdr = HeadReader("cups", file)
             \/ \E file \in UrfHeads : rdr = HeadReader("urf", file)
       \/ /\ rdr = Idle
          /\ \/ \E version \in 1..3, order \in {"BE", "LE"}, ne \in {"BE", "LE"} :
                   wtr = HeadWriter("cups", version, order, ne, 0)
             \/ \E page_count \in PageCounts :
                   wtr = HeadWriter("urf", 2, "BE", "BE", page_count)
    /\ dec = Idle /\ enc = Idle /\ ctor = Idle

\* a poll of CupsRasterWriter::new or UrfWriter::new
HeadWriterNew(sc) ==
    /\ wtr.status = "new"
    /\ LET r == IF wtr.kind = "urf"
                THEN UrfWriteHeaderPoll(wtr.buffer, wtr.num_written, wtr.out, sc)
                ELSE WriteSyncWordPoll(wtr.buffer, wtr.num_written, wtr.out, sc)
       IN  wtr' = [wtr EXCEPT !.status = IF r.res = "Ok" THEN "writer"
                                         ELSE IF r.res = "Pending" THEN "new"
                                         ELSE "failed",
                              !.num_written = r.num_written,
                              !.out = r.out,
                              !.err = r.err,
                              !.pended = @ \/ r.res = "Pending"]
    /\ UNCHANGED <<dec, enc, rdr, ctor>>

\* UrfWriter::finish and CupsRasterWriter::finish: ready(Ok(())), nothing is
\* written
HeadWriterFinish ==
    /\ wtr.status = "writer"
    /\ wtr' = [wtr EXCEPT !.status = "finished"]
    /\ UNCHANGED <<dec, enc, rdr, ctor>>

\* a reader of the same kind is handed what the writer wrote
HeadOpen ==
    /\ wtr.status = "finished"
    /\ rdr = Idle
    /\ rdr' = HeadReader(wtr.kind, wtr.out)
    /\ UNCHANGED <<dec, enc, wtr, ctor>>

\* a poll of CupsRasterUnifiedReader::new or UrfReader::new
HeadReaderNew(sc) ==
    /\ rdr.status = "new"
    /\ LET r == IF rdr.kind = "urf"
                THEN UrfReadHeaderPoll(rdr.buffer, rdr.num_read, rdr.file,
                                       rdr.pos, sc)
                ELSE ReadSyncWordPoll(rdr.buffer, rdr.num_read, rdr.file,
                                      rdr.pos, sc)
       IN  rdr' = [rdr EXCEPT !.status = IF r.res = "Ok" THEN "reader"
                                         ELSE IF r.res = "Pending" THEN "new"
                                         ELSE "failed",
                              !.buffer = r.buffer,
                              !.num_read = r.num_read,
                              !.pos = r.pos,
                              !.err = r.err,
                              !.word = r.word,
                              !.page_count = r.page_count,
                              !.pended = @ \/ r.res = "Pending"]
    /\ UNCHANGED <<dec, enc, wtr, ctor>>

HeadNext ==
    \/ \E sc \in Scripts : HeadWriterNew(sc)
    \/ HeadWriterFinish
    \/ HeadOpen
    \/ \E sc \in Scripts : HeadReaderNew(sc)

SpecHead == HeadInit /\ [][HeadNext]_vars

\* ------------------------------------------------------------------------
\* Properties of the file headers (SpecHead)
\* ------------------------------------------------------------------------
\* the variant the format gives to four bytes: <<version, order>>, or <<>>
\* for bytes that are no sync word
SyncVariant(b) ==
    CASE b = <<82, 97, 83, 116>> -> <<1, "BE">>
      [] b = <<116, 83, 97, 82>> -> <<1, "LE">>
      [] b = <<82, 97, 83, 50>> -> <<2, "BE">>
      [] b = <<50, 83, 97, 82>> -> <<2, "LE">>
      [] b = <<82, 97, 83, 51>> -> <<3, "BE">>
      [] b = <<51, 83, 97, 82>> -> <<3, "LE">>
      [] OTHER -> <<>>

\* C22: sync-word dispatch.  A CUPS reader constructed over a file of at
\* least 4 bytes is built exactly when the first 4 bytes are 'RaSt',
\* 'tSaR', 'RaS2', '2SaR', 'RaS3' or '3SaR', as V1 big-endian, V1
\* little-endian, V2 big-endian, V2 little-endian, V3 big-endian and V3
\* little-endian, and fails with InvalidSyncWord otherwise; over fewer than
\* 4 bytes it fails with UnexpectedEof; and over the 4 bytes the writer of
\* a variant wrote, on a build of either byte order, it is built as that
\* variant.
SyncWordDispatch ==
    (rdr.status \in {"reader", "failed"} /\ rdr.kind = "cups") =>
        LET variant == SyncVariant(SubSeq(rdr.file, 1, Min(4, Len(rdr.file))))
        IN  /\ Len(rdr.file) < 4 =>
                  rdr.status = "failed" /\ rdr.err = "UnexpectedEof"
            /\ (Len(rdr.file) >= 4 /\ variant = <<>>) =>
                  rdr.status = "failed" /\ rdr.err = "InvalidSyncWord"
            /\ (Len(rdr.file) >= 4 /\ variant # <<>>) =>
                  /\ rdr.status = "reader"
                  /\ <<rdr.word.version, rdr.word.order>> = variant
                  /\ rdr.pos = 4
            /\ wtr.status = "finished" =>
                  /\ Len(wtr.out) = 4
                  /\ rdr.status = "reader"
                  /\ rdr.word.version = wtr.version
                  /\ rdr.word.order = wtr.order

\* C22 witness: the V3 little-endian writer of a big-endian build wrote its
\* sync word through a transport that suspended it, and the reader that was
\* handed the 4 bytes was built as V3 little-endian
SyncWordReadBack ==
    /\ rdr.status = "reader"
    /\ rdr.kind = "cups"
    /\ wtr.status = "finished"
    /\ wtr.pended
    /\ wtr.ne = "BE"
    /\ rdr.word.version = 3
    /\ rdr.word.order = "LE"

\* C23: the URF file header.  UrfWriter::new with page_count = n writes
\* 'UNIRAST\0' and then n as a big-endian u32, 12 bytes, whatever the
\* transport does, and finish without a page writes nothing more
\* (page_count = 2: 55 4E 49 52 41 53 54 00 00 00 00 02); UrfReader::new
\* over these 12 bytes is built with page_count n; and over 12 bytes or
\* more whose first 8 are not the magic it fails with InvalidMagic.
UrfFileHeaderExact ==
    /\ (wtr.status # "idle" /\ wtr.kind = "urf") =>
          /\ wtr.status \in {"new", "writer", "finished"}
          /\ Len(wtr.out) <= 12
          /\ wtr.status # "new" => Len(wtr.out) = 12
          /\ \A i \in 1..Len(wtr.out) :
                wtr.out[i] = IF i <= 8
                             THEN <<85, 78, 73, 82, 65, 83, 84, 0>>[i]
                             ELSE (wtr.page_count \div (256 ^ (12 - i))) % 256
          /\ (wtr.status = "finished" /\ wtr.page_count = 2) =>
                wtr.out = <<85, 78, 73, 82, 65, 83, 84, 0, 0, 0, 0, 2>>
          /\ rdr.status \in {"reader", "failed"} =>
                rdr.status = "reader" /\ rdr.page_count = wtr.page_count
    /\ (rdr.status \in {"reader", "failed"} /\ rdr.kind = "urf") =>
          /\ (/\ Len(rdr.file) >= 12
              /\ SubSeq(rdr.file, 1, 8) # <<85, 78, 73, 82, 65, 83, 84, 0>>) =>
                rdr.status = "failed" /\ rdr.err = "InvalidMagic"
          /\ rdr.status = "reader" =>
                /\ rdr.pos = 12
                /\ rdr.page_count =
                      ((rdr.file[9] * 256 + rdr.file[10]) * 256 + rdr.file[11])
                          * 256 + rdr.file[12]

\* C23 witness: a writer with page_count = 2 was finished without a page
\* and the reader over its 12 bytes, suspended on the way, reports 2 pages
UrfHeaderReadBack ==
    /\ wtr.status = "finished"
    /\ wtr.kind = "urf"
    /\ wtr.page_count = 2
    /\ rdr.status = "reader"
    /\ rdr.pended
    /\ rdr.page_count = 2

\* ------------------------------------------------------------------------
\* A caller that goes on using a codec whatever its calls return: any
\* buffers, writes beyond the declared total, flushes at any time, calls
\* after an error
\* ------------------------------------------------------------------------
\* (chunk_size, bytes_per_line, num_bytes) of the codecs used; the first is
\* the empty page of test_compress_zero and test_uncompress_zero
UseShapes ==
    { [chunk_size |-> 0, bytes_per_line |-> 0, num_bytes |-> 0, fill_byte |-> 0],
      [chunk_size |-> 1, bytes_per_line |-> 1, num_bytes |-> 2, fill_byte |-> 0],
      [chunk_size |-> 1, bytes_per_line |-> 2, num_bytes |-> 4, fill_byte |-> 0] }

EmptyPage(p) == p.chunk_size = 0 /\ p.bytes_per_line = 0 /\ p.num_bytes = 0

\* encoded input: line-repeat counts and block headers 0x00 (one chunk),
\* 0x01 (run of two), 0x80 (fill)
UseBytes == {0, 1, 128}

UseData == SeqsUpTo(UseBytes, MaxIn)

\* the buffers the caller writes
UseBufs == SeqsUpTo(SrcBytes, MaxBuf) \ {<<>>}

\* the call that returned last
Called(op, len, r) == [op |-> op, len |-> len, res |-> r.res, n |-> r.n]

NotCalled == [op |-> "new", len |-> 0, res |-> "Ok", n |-> 0]

UseEnc(p, g) ==
    [e |-> CompressedRasterEncoderNew(p.chunk_size, p.bytes_per_line,
                                      p.num_bytes, g, TRUE).enc,
     new_err |-> CompressedRasterEncoderNew(p.chunk_size, p.bytes_per_line,
                                            p.num_bytes, g, TRUE).err,
     shape |-> p, out |-> <<>>, offered |-> <<>>, status |-> "open",
     last |-> NotCalled, erred |-> FALSE, late |-> FALSE,
     flushed |-> FALSE]

UseDec(p, data, g) ==
    [d |-> NewDecoderOf(p, g), d0 |-> NewDecoderOf(p, g),
     new_err |-> CompressedRasterDecoderNew(NO_LIMITS, p.chunk_size,
                                            p.bytes_per_line, p.num_bytes,
                                            p.fill_byte, g, TRUE).err,
     shape |-> p, data |-> data, pos |-> 0, sink |-> <<>>,
     status |-> "open", err |-> "none",
     pended |-> FALSE, midblock |-> FALSE, dropped |-> FALSE, waited |-> FALSE, early |-> FALSE, staged |-> FALSE, eof |-> FALSE,
     last |-> NotCalled, erred |-> FALSE, late |-> FALSE]

\* an encoder alone, a decoder alone, or for the empty page both
UseInit ==
    /\ \E p \in UseShapes, data \in UseData, g \in Garbage,
          side \in {"enc", "dec", "both"} :
          /\ side = "both" => EmptyPage(p)
          /\ side = "enc" => data = <<>>
          /\ enc = IF side = "dec" THEN Idle ELSE UseEnc(p, g)
          /\ dec = IF side = "enc" THEN Idle ELSE UseDec(p, data, g)
    /\ rdr = Idle /\ wtr = Idle /\ ctor = Idle

\* the caller's view after a call on the encoder returned r
UseEncAfter(x, op, buf, r) ==
    [x EXCEPT !.e = r.e,
              !.out = r.out,
              !.offered = IF op # "write" THEN @
                          ELSE IF r.res = "Pending" THEN buf ELSE <<>>,
              !.status = IF r.res = "Panic" THEN "panic"
                         ELSE IF r.res = "Hang" THEN "hang"
                         ELSE IF op = "close" /\ r.res = "Ok" THEN "closed"
                         ELSE "open",
              !.last = Called(op, Len(buf), r),
              !.erred = @ \/ r.res = "Err",
              !.late = @ \/ (x.erred /\ r.res = "Ok" /\ r.n > 0),
              !.flushed = @ \/ (op = "flush" /\ r.res = "Ok")]

\* poll_write(buf); after Pending the caller offers the same bytes again
UseWrite(buf, sc) ==
    /\ enc.status = "open"
    /\ enc.offered # <<>> => buf = enc.offered
    /\ enc' = UseEncAfter(enc, "write", buf,
                          EncPollWrite(enc.e, enc.out, buf, sc))
    /\ UNCHANGED <<dec, rdr, wtr, ctor>>

UseFlush(sc) ==
    /\ enc.status = "open"
    /\ enc' = UseEncAfter(enc, "flush", <<>>,
                          EncPollFlush(enc.e, enc.out, sc))
    /\ UNCHANGED <<dec, rdr, wtr, ctor>>

UseClose(sc) ==
    /\ enc.status = "open"
    /\ enc' = UseEncAfter(enc, "close", <<>>,
                          EncPollClose(enc.e, enc.out, sc))
    /\ UNCHANGED <<dec, rdr, wtr, ctor>>

\* the caller's view after a poll_read with a buffer of b bytes returned r
UseDecAfter(x, b, r) ==
    [DecAfter(x, r) EXCEPT !.last = Called("read", b, r),
                           !.erred = @ \/ r.res = "Err",
                           !.late = @ \/ (x.erred /\ r.res = "Ok" /\ r.n > 0)]

\* poll_read with a buffer of b bytes, also after Ok(0) and after an error
UseRead(b, sc) ==
    /\ dec.status \in {"open", "eof", "err"}
    /\ dec' = UseDecAfter(dec, b,
                          DecPollRead(dec.d, dec.data, dec.pos, b, sc))
    /\ UNCHANGED <<enc, rdr, wtr, ctor>>

UseNext ==
    \/ \E buf \in UseBufs, sc \in Scripts : UseWrite(buf, sc)
    \/ \E sc \in Scripts : UseFlush(sc)
    \/ \E sc \in Scripts : UseClose(sc)
    \/ \E b \in BufLens, sc \in Scripts : UseRead(b, sc)

SpecUse == UseInit /\ [][UseNext]_vars

\* ------------------------------------------------------------------------
\* Properties of a codec in any caller's hands (SpecUse)
\* ------------------------------------------------------------------------
\* C21: the empty page.  With chunk_size = 0, bytes_per_line = 0 and
\* total = 0 both constructors succeed; whatever is written and flushed,
\* every write returns Ok(0) and the transport of the encoder receives no
\* byte; every read of the decoder returns Ok(0), delivers no byte and
\* leaves its transport where it was.
EmptyPageSilent ==
    /\ (enc.status # "idle" /\ EmptyPage(enc.shape)) =>
          /\ enc.new_err = "none"
          /\ enc.status \in {"open", "closed"}
          /\ enc.out = <<>>
          /\ enc.last.res \in {"Ok", "Pending"}
          /\ enc.last.n = 0
          /\ enc.last.op = "write" => enc.last.res = "Ok"
    /\ (dec.status # "idle" /\ EmptyPage(dec.shape)) =>
          /\ dec.new_err = "none"
          /\ dec.status \in {"open", "eof"}
          /\ dec.sink = <<>>
          /\ dec.pos = 0
          /\ dec.last.res = "Ok"
          /\ dec.last.n = 0

\* C21 witness: on the empty page a write of two bytes was answered and
\* the encoder flushed, and a read was answered although the transport of
\* the decoder holds bytes
EmptyPageUsed ==
    /\ enc.status # "idle"
    /\ dec.status # "idle"
    /\ EmptyPage(enc.shape)
    /\ enc.flushed
    /\ enc.last.op = "write"
    /\ enc.last.len = 2
    /\ dec.status = "eof"
    /\ dec.last.op = "read"
    /\ Len(dec.data) > 0

\* ------------------------------------------------------------------------
\* A caller reading a page through the uncompressed decoder from a file
\* that goes on after the page, or writing through the uncompressed encoder
\* ------------------------------------------------------------------------
\* the call that returned last: its buffer, the bytes the page still held
\* before it, its result and the polls of the transport it made
PassCalled(op, len, before, r) ==
    [op |-> op, len |-> len, before |-> before, res |-> r.res, n |-> r.n,
     polls |-> r.polls]

PassInit ==
    /\ \/ /\ enc = Idle
          /\ \E num_bytes \in 0..MaxDim, data \in SeqsUpTo(SrcBytes, MaxIn) :
                dec = [status |-> "open", num_bytes |-> num_bytes,
                       d |-> UncompressedRasterDecoderNew(NO_LIMITS, num_bytes).dec,
                       data |-> data, pos |-> 0, sink |-> <<>>,
                       last |-> PassCalled("new", 0, num_bytes,
                                           [res |-> "Ok", n |-> 0, polls |-> 0])]
       \/ /\ dec = Idle
          /\ \E num_bytes \in 0..MaxDim :
                enc = [status |-> "open", num_bytes |-> num_bytes,
                       e |-> UncompressedRasterEncoderNew(num_bytes),
                       out |-> <<>>, taken |-> <<>>, offered |-> <<>>,
                       last |-> PassCalled("new", 0, num_bytes,
                                           [res |-> "Ok", n |-> 0, polls |-> 0])]
    /\ rdr = Idle /\ wtr = Idle /\ ctor = Idle

\* poll_read with a buffer of b bytes
PassRead(b, sc) ==
    /\ dec.status = "open"
    /\ LET r == UncPollRead(dec.d, dec.data, dec.pos, b, sc)
       IN  dec' = [dec EXCEPT !.d = r.dec,
                              !.pos = r.pos,
                              !.sink = @ \o r.bytes,
                              !.last = PassCalled("read", b,
                                                  dec.d.bytes_remaining, r)]
    /\ UNCHANGED <<enc, rdr, wtr, ctor>>

\* poll_write(buf); after Pending the caller offers the same bytes again
PassWrite(buf, sc) ==
    /\ enc.status = "open"
    /\ enc.offered # <<>> => buf = enc.offered
    /\ LET r == UncPollWrite(enc.e, enc.out, buf, sc)
       IN  enc' = [enc EXCEPT !.e = r.e,
                              !.out = r.out,
                              !.taken = @ \o SubSeq(buf, 1, r.n),
                              !.offered = IF r.res = "Pending" THEN buf
                                          ELSE <<>>,
                              !.last = PassCalled("write", Len(buf),
                                                  enc.e.bytes_remaining, r)]
    /\ UNCHANGED <<dec, rdr, wtr, ctor>>

PassNext ==
    \/ \E b \in BufLens, sc \in Scripts : PassRead(b, sc)
    \/ \E buf \in UseBufs, sc \in Scripts : PassWrite(buf, sc)

SpecPass == PassInit /\ [][PassNext]_vars

\* the accounting of one side after its last call
PassCounted(last, bytes_remaining, num_bytes, moved) ==
    /\ last.res \in {"Ok", "Pending"}
    /\ last.n <= Min(last.len, last.before)
    /\ bytes_remaining = last.before - last.n
    /\ bytes_remaining = num_bytes - moved
    /\ last.before = 0 => (last.res = "Ok" /\ last.n = 0 /\ last.polls = 0)

\* C24: the passthrough codec.  What the uncompressed decoder has delivered
\* is what its transport held, byte for byte, and what the transport of the
\* uncompressed encoder has received is what the encoder accepted; every
\* call moves at most min(buf.len, bytes_remaining) bytes and lowers
\* bytes_remaining by the number it returns; with bytes_remaining = 0 a
\* call returns 0 and does not poll the transport; the decoder has never
\* consumed more of its transport than the page holds.
PassthroughExact ==
    /\ dec.status # "idle" =>
          /\ PassCounted(dec.last, dec.d.bytes_remaining, dec.num_bytes,
                         Len(dec.sink))
          /\ dec.sink = SubSeq(dec.data, 1, dec.pos)
          /\ dec.pos <= dec.num_bytes
    /\ enc.status # "idle" =>
          /\ PassCounted(enc.last, enc.e.bytes_remaining, enc.num_bytes,
                         Len(enc.out))
          /\ enc.out = enc.taken
          /\ Len(enc.out) <= enc.num_bytes

\* C24 witness: a page of 2 bytes was read to its end from a file of 4, and
\* a read with a larger buffer then returned 0
PassStoppedAtPageEnd ==
    /\ dec.status = "open"
    /\ dec.num_bytes = 2
    /\ Len(dec.data) = 4
    /\ dec.pos = 2
    /\ dec.last.before = 0
    /\ dec.last.len = ScratchLen

\* C25: a codec that errored is poisoned.  Once a read of a decoder or a
\* write of an encoder has returned an error, no later read of that decoder
\* delivers a byte and no later write of that encoder accepts one.
ErroredCodecPoisoned ==
    /\ dec.status # "idle" => ~dec.late
    /\ enc.status # "idle" => ~enc.late

\* C26: flush and close only propagate to the transport.  A poll_flush or
\* a poll_close of the encoder, whatever the transport answers, leaves the
\* encoder as it was (line_buffer, pos_in_line, line_repeat, the flush state
\* and bytes_remaining) and the transport receives no byte: a line withheld
\* for the line-repeat count is still withheld.
FlushOnlyPropagates ==
    [][(enc.status = "open" /\ enc'.last.op \in {"flush", "close"}) =>
          (enc'.e = enc.e /\ enc'.out = enc.out)]_vars

\* C26 witness: a whole line was written, is withheld because the page goes
\* on, and is still withheld after a flush that the transport completed
HeldLineAfterFlush ==
    /\ enc.status = "open"
    /\ enc.last.op = "flush"
    /\ enc.last.res = "Ok"
    /\ enc.e.line_repeat = 0
    /\ enc.e.bytes_remaining < enc.shape.num_bytes
    /\ enc.out = <<>>

\* ------------------------------------------------------------------------
\* Properties of the blocks the encoder writes (SpecCodec)
\* ------------------------------------------------------------------------
\* chunk j of the line of the page that the block with tag t belongs to
SrcChunk(t, j, cs) ==
    SubSeq(enc.src, t.before + j * cs + 1, t.before + (j + 1) * cs)

\* the chunks from chunk i on that equal chunk i, chunk i included, at most
\* cap of them, in a line of n chunks
RunLength(t, i, n, cs, cap) ==
    CHOOSE k \in 1..Min(cap, n - i) :
        /\ \A m \in 0..(k - 1) : SrcChunk(t, i + m, cs) = SrcChunk(t, i, cs)
        /\ \/ k = Min(cap, n - i)
           \/ SrcChunk(t, i + k, cs) # SrcChunk(t, i, cs)

\* the block after block x of the same line, if it was written, starts
\* count chunks further in the line and taken chunks further in the output
NextBlockAt(ref, x, cs, count, taken) ==
    (x < Len(ref.tags) /\ ref.tags[x + 1].before = ref.tags[x].before) =>
        /\ ref.tags[x + 1].cursor = ref.tags[x].cursor + count * cs
        /\ ref.tags[x + 1].at = ref.tags[x].at + 1 + taken * cs

\* block x is a run of count chunks
RunOf(ref, x, cs, count) ==
    /\ ref.tags[x].code = count - 1
    /\ ref.tags[x].code \in 1..127
    /\ NextBlockAt(ref, x, cs, count, 1)

RunRuleAt(ref, x, n, cs) ==
    LET t == ref.tags[x]
        i == t.cursor \div cs
    IN  (i + 1 < n /\ SrcChunk(t, i, cs) = SrcChunk(t, i + 1, cs)) =>
            RunOf(ref, x, cs, RunLength(t, i, n, cs, 128))

RunRuleIn(ref, L, cs) ==
    \A x \in 1..Len(ref.tags) : RunRuleAt(ref, x, L \div cs, cs)

\* C27: the run rule of the encoder.  Every block written at a chunk i that
\* equals chunk i + 1 of its line has the tag count - 1, where count is
\* the number of chunks from i on that equal chunk i, at most 128, and is
\* followed by one chunk; the next block of the line starts at chunk
\* i + count.
EncoderRunRule ==
    RunRuleIn(EncRef, Len(enc.e.line_buffer), enc.chunk_size)

\* C27 witness: a line of 130 equal chunks was written as a run of 128 with
\* tag 0x7F and a run of 2 with tag 1
RunSplitAtCap ==
    /\ enc.status = "closed"
    /\ enc.bytes_per_line = RunCap + 3
    /\ enc.out = <<0, 127, 128, 1, 128>>

\* the chunks from chunk i on that a literal holds when it goes on while
\* the next chunk differs from the one before it: chunk i, and each chunk
\* after it that differs from its predecessor, at most cap of them
LiteralLengthStated(t, i, n, cs, cap) ==
    CHOOSE k \in 1..Min(cap, n - i) :
        /\ \A m \in 1..(k - 1) :
              SrcChunk(t, i + m, cs) # SrcChunk(t, i + m - 1, cs)
        /\ \/ k = Min(cap, n - i)
           \/ SrcChunk(t, i + k, cs) = SrcChunk(t, i + k - 1, cs)

\* block x is a literal of count chunks with a tag in 0x81..=0xFF
LiteralStatedOf(ref, x, cs, count) ==
    /\ ref.tags[x].code \in 129..255
    /\ ref.tags[x].code = 257 - count
    /\ NextBlockAt(ref, x, cs, count, count)

LiteralStatedAt(ref, x, n, cs) ==
    LET t == ref.tags[x]
        i == t.cursor \div cs
    IN  (i + 1 < n /\ SrcChunk(t, i, cs) # SrcChunk(t, i + 1, cs)) =>
            LiteralStatedOf(ref, x, cs, LiteralLengthStated(t, i, n, cs, 127))

LiteralStatedIn(ref, L, cs) ==
    \A x \in 1..Len(ref.tags) : LiteralStatedAt(ref, x, L \div cs, cs)

\* C28 as stated: every block written at a chunk i that differs from chunk
\* i + 1 of its line holds chunk i and the chunks after it that differ from
\* their predecessors, at most 0x7F, and its tag is (!count) + 2, a byte
\* in 0x81..=0xFF.
EncoderLiteralRuleAsStated ==
    LiteralStatedIn(EncRef, Len(enc.e.line_buffer), enc.chunk_size)

\* the chunks a literal of the encoder holds: chunk i, and each chunk after
\* it that has a successor in the line that differs from it, at most cap
LiteralLength(t, i, n, cs, cap) ==
    CHOOSE k \in 1..Min(cap, n - i - 1) :
        /\ \A m \in 1..(k - 1) :
              SrcChunk(t, i + m + 1, cs) # SrcChunk(t, i + m, cs)
        /\ \/ k = Min(cap, n - i - 1)
           \/ SrcChunk(t, i + k + 1, cs) = SrcChunk(t, i + k, cs)

\* block x is a literal of count chunks with the tag the encoder computes
LiteralOf(ref, x, cs, count) ==
    /\ ref.tags[x].code = (257 - count) % 256
    /\ ref.tags[x].code = 0 \/ ref.tags[x].code \in 130..255
    /\ ref.tags[x].code = 0 <=> count = 1
    /\ NextBlockAt(ref, x, cs, count, count)

LiteralRuleAt(ref, x, n, cs) ==
    LET t == ref.tags[x]
        i == t.cursor \div cs
    IN  (i + 1 < n /\ SrcChunk(t, i, cs) # SrcChunk(t, i + 1, cs)) =>
            LiteralOf(ref, x, cs, LiteralLength(t, i, n, cs, 127))

LiteralRuleIn(ref, L, cs) ==
    \A x \in 1..Len(ref.tags) : LiteralRuleAt(ref, x, L \div cs, cs)

\* C28: the literal rule of the encoder.  Every block written at a chunk i
\* that differs from chunk i + 1 of its line holds chunk i and each chunk
\* after it whose successor in the line differs from it, count chunks and
\* at most 0x7F; its tag is (!count).wrapping_add(2), which is 0x00 for
\* count = 1 and lies in 0x82..=0xFF otherwise, and it is followed by the
\* count chunks; the next block of the line starts at chunk i + count.
EncoderLiteralRule ==
    LiteralRuleIn(EncRef, Len(enc.e.line_buffer), enc.chunk_size)

\* C28 witness: a line of 130 chunks that alternate was written as a
\* literal of 127 chunks with tag 0x82, a literal of 2 chunks with tag 0xFF
\* and the last chunk with tag 0x00
LiteralSplitAtCap ==
    /\ enc.status = "closed"
    /\ enc.bytes_per_line = LiteralCap + 3
    /\ enc.src[1] # enc.src[2]
    /\ Len(enc.out) = 1 + (1 + 127) + (1 + 2) + (1 + 1)
    /\ enc.out[2] = 130
    /\ enc.out[130] = 255
    /\ enc.out[133] = 0

\* ------------------------------------------------------------------------
\* The decoder and its transport within one call (SpecDec)
\* ------------------------------------------------------------------------
\* a turn of the loop of poll_read in state UseBuffer, for a buffer of b
\* bytes: it leaves the transport alone whatever the transport would answer
UseBufferTurnQuiet(b, sc) ==
    LET c == DecCall(dec.d, dec.pos, Min(dec.d.bytes_remaining, b))
        s == DecStep(c, dec.data, sc)
    IN  IF s.k = "go"
        THEN s.c.polls = 0 /\ s.c.pos = dec.pos /\ s.c.held = 0
        ELSE /\ s.res # "Pending"
             /\ s.polls = 0 /\ s.pos = dec.pos /\ ~s.eof /\ s.held = 0

\* C29: the decoder never waits for input while holding output.  In no read
\* call was the transport polled after a byte had been copied to the caller's
\* buffer in that call, no call that ended Pending or with an error had
\* copied a byte it then dropped, and a turn in state UseBuffer never polls
\* the transport.
DecoderNeverWaitsHolding ==
    /\ ~dec.waited
    /\ ~dec.dropped
    /\ (dec.status = "open" /\ dec.d.state = "UseBuffer"
          /\ dec.d.bytes_remaining > 0)
         => \A b \in BufLens, sc \in Scripts : UseBufferTurnQuiet(b, sc)

\* a read handed bytes over with room left in the caller's buffer at a point
\* where the next turn asks the transport, the transport answered Pending in
\* some call, and the decoder now serves from its line buffer
DecoderHandedOverEarly ==
    /\ dec.early
    /\ dec.pended
    /\ dec.status = "open"
    /\ dec.d.state = "UseBuffer"
    /\ dec.d.bytes_remaining > 0
    /\ Len(dec.sink) > 0

\* ------------------------------------------------------------------------
\* factory/cups.rs : the size of a page in 32-bit and 64-bit arithmetic
\* ------------------------------------------------------------------------
\* An unsigned integer is the sequence of its bytes, least significant first:
\* a u32 has four of them, a u64 eight.  The model's own integers are too
\* narrow for the products below.
U32Of(v) == <<v % 256, (v \div 256) % 256, (v \div 65536) % 256, v \div 16777216>>

\* `x as u64` for a u32 x
AsU64(x) == x \o Zeros(8 - Len(x))

\* the sum of the byte products a[i] * b[k - i] of column k (from 0), for
\* the i from `from` on
RECURSIVE ColumnSum(_, _, _, _)
ColumnSum(a, b, k, from) ==
    IF from > k \/ from >= Len(a) THEN 0
    ELSE (IF k - from < Len(b) THEN a[from + 1] * b[k - from + 1] ELSE 0)
         + ColumnSum(a, b, k, from + 1)

\* long multiplication, column after column with its carry: the product of a
\* and b in full, Len(a) + Len(b) bytes
RECURSIVE LongMul(_, _, _, _, _)
LongMul(a, b, k, carry, acc) ==
    IF k = Len(a) + Len(b) THEN acc
    ELSE LET t == ColumnSum(a, b, k, 0) + carry
         IN  LongMul(a, b, k + 1, t \div 256, Append(acc, t % 256))

Product(a, b) == LongMul(a, b, 0, 0, <<>>)

IsZeroFrom(x, from) == \A i \in from..Len(x) : x[i] = 0

\* a multiplication of two u64: the low 64 bits of the product, and whether
\* bits were lost
MulU64(a, b) ==
    LET full == Product(a, b)
    IN  [val |-> SubSeq(full, 1, 8), overflow |-> ~IsZeroFrom(full, 9)]

\* a multiplication that hands on the low 64 bits whatever was lost
checked_mul_Wrapping(a, b) == [some |-> TRUE, val |-> MulU64(a, b).val]

\* u64::checked_mul: None when the product does not fit
checked_mul(a, b) ==
    LET m == MulU64(a, b)
    IN  IF m.overflow THEN [some |-> FALSE, val |-> AsU64(<<>>)]
        ELSE [some |-> TRUE, val |-> m.val]

\* what a factory hands to the constructor of its codec, or its error
SizeResult(err, chunk_size, bytes_per_line, num_bytes) ==
    [err |-> err, chunk_size |-> chunk_size, bytes_per_line |-> bytes_per_line,
     num_bytes |-> num_bytes]

SizeError(err) == SizeResult(err, 0, AsU64(<<>>), AsU64(<<>>))

\* `let num_bytes = match color_order { ... }`: the operator `*` on two u64
\* panics on overflow when the build checks overflow (checks) and wraps
\* otherwise; checked_mul guards the third factor
NumBytesOf(color_order, bytes_per_line, height, num_colors, checks) ==
    LET lines == MulU64(AsU64(bytes_per_line), AsU64(height))
    IN  IF lines.overflow /\ checks THEN [err |-> "Panic", val |-> AsU64(<<>>)]
        ELSE IF color_order \in {0, 1}
        THEN [err |-> "none", val |-> lines.val]
        ELSE LET all == checked_mul(lines.val, AsU64(num_colors))
             IN  IF all.some THEN [err |-> "none", val |-> all.val]
                 ELSE [err |-> "DataTooLarge", val |-> AsU64(<<>>)]

\* the fields of a header that the factories use; bytes_per_line, height and
\* num_colors are u32 in bytes
SizeHeaderFields(h) ==
    [i \in 1..Len(CupsFields) |->
        IF i = FieldIndex("color_order") THEN h.color_order
        ELSE IF i = FieldIndex("color_space") THEN h.color_space
        ELSE IF i = FieldIndex("bits_per_pixel") THEN h.bits_per_pixel
        ELSE IF i = FieldIndex("bits_per_color") THEN h.bits_per_color
        ELSE 0]

\* CupsPageHeaderV1::num_colors
SizeV1NumColors(h) == U32Of(CupsV1NumColors(h.color_space, h.bits_per_pixel))

\* CupsPageHeaderV2::num_colors
SizeV2NumColors(h) ==
    IF IsZeroFrom(h.num_colors, 1) THEN SizeV1NumColors(h) ELSE h.num_colors

\* CupsPageFactoryV1::decode, up to the call of UncompressedRasterDecoder::new
SizeV1Decode(h, checks) ==
    LET n == NumBytesOf(h.color_order, h.bytes_per_line, h.height,
                        SizeV1NumColors(h), checks)
    IN  IF n.err # "none" THEN SizeError(n.err)
        ELSE SizeResult("none", 0, AsU64(<<>>), n.val)

\* CupsPageFactoryV1::encode, up to the call of UncompressedRasterEncoder::new
SizeV1Encode(h, checks) ==
    LET n == NumBytesOf(h.color_order, h.bytes_per_line, h.height,
                        SizeV1NumColors(h), checks)
    IN  IF n.err # "none" THEN SizeError(n.err)
        ELSE SizeResult("none", 0, AsU64(<<>>), n.val)

\* CupsPageFactoryV2::decode, up to the call of CompressedRasterDecoder::new
SizeV2Decode(h, checks) ==
    LET c == CupsChunkSize(SizeHeaderFields(h))
        n == NumBytesOf(h.color_order, h.bytes_per_line, h.height,
                        SizeV2NumColors(h), checks)
    IN  IF c.err # "none" THEN SizeError(c.err)
        ELSE IF n.err # "none" THEN SizeError(n.err)
        ELSE SizeResult("none", c.val, AsU64(h.bytes_per_line), n.val)

\* CupsPageFactoryV2::encode, up to the call of CompressedRasterEncoder::new
SizeV2Encode(h, checks) ==
    LET c == CupsChunkSize(SizeHeaderFields(h))
        n == NumBytesOf(h.color_order, h.bytes_per_line, h.height,
                        SizeV2NumColors(h), checks)
    IN  IF c.err # "none" THEN SizeError(c.err)
        ELSE IF n.err # "none" THEN SizeError(n.err)
        ELSE SizeResult("none", c.val, AsU64(h.bytes_per_line), n.val)

\* u32 values at the edges of the products: 0, 1, 3, 2^16, 2^31, 2^32 - 1
SizeWords ==
    {U32Of(0), U32Of(1), U32Of(3), U32Of(65536),
     <<0, 0, 0, 128>>, <<255, 255, 255, 255>>}

\* headers as a caller can build them: chunky, banded and planar, gray (1
\* color), RGB (3) and KCMYcm (6 or 4), chunks of 1 byte and of 256
SizeHeaders ==
    [color_order : 0..2, color_space : {0, 1, 9},
     bits_per_pixel : {1, 8, 2048}, bits_per_color : {8},
     bytes_per_line : SizeWords, height : SizeWords,
     num_colors : {U32Of(0), U32Of(1), U32Of(4), <<255, 255, 255, 255>>}]

NotBuilt == SizeError("unbuilt")

SizeInit ==
    /\ \E h \in SizeHeaders, version \in {1, 2}, checks \in BOOLEAN :
          ctor = [status |-> "size", header |-> h, version |-> version,
                  checks |-> checks, dec |-> NotBuilt, enc |-> NotBuilt]
    /\ dec = Idle /\ enc = Idle /\ rdr = Idle /\ wtr = Idle

\* the factory of the header's version builds the decoder of the page
SizeDecode ==
    /\ ctor.dec = NotBuilt
    /\ ctor' = [ctor EXCEPT !.dec =
                   IF ctor.version = 1
                   THEN SizeV1Decode(ctor.header, ctor.checks)
                   ELSE SizeV2Decode(ctor.header, ctor.checks)]
    /\ UNCHANGED <<dec, enc, rdr, wtr>>

\* the factory of the header's version builds the encoder of the page
SizeEncode ==
    /\ ctor.enc = NotBuilt
    /\ ctor' = [ctor EXCEPT !.enc =
                   IF ctor.version = 1
                   THEN SizeV1Encode(ctor.header, ctor.checks)
                   ELSE SizeV2Encode(ctor.header, ctor.checks)]
    /\ UNCHANGED <<dec, enc, rdr, wtr>>

SizeNext == SizeDecode \/ SizeEncode

SpecSize == SizeInit /\ [][SizeNext]_vars

\* the product of the header fields in full: 8 bytes for two factors, 12 for
\* three
SizeExact(h, version) ==
    LET lines == Product(h.bytes_per_line, h.height)
    IN  IF h.color_order = 2
        THEN Product(lines, IF version = 1 THEN SizeV1NumColors(h)
                            ELSE SizeV2NumColors(h))
        ELSE lines

\* the chunk size of a version 2 page fits a byte; version 1 has none
SizeChunkFits(h, version) ==
    version = 1 \/ CupsChunkSize(SizeHeaderFields(h)).err = "none"

\* r is what the claim allows for header h
SizeAsClaimed(r, h, version) ==
    LET exact == SizeExact(h, version)
    IN  IF ~SizeChunkFits(h, version) THEN r.err = "DataTooLarge"
        ELSE IF IsZeroFrom(exact, 9)
        THEN r.err = "none" /\ r.num_bytes = SubSeq(exact, 1, 8)
        ELSE r.err = "DataTooLarge"

\* C30: CUPS page size derivation without wrap-around.  For chunky and
\* banded pages the size handed to the codec is bytes_per_line * height, for
\* planar pages bytes_per_line * height * num_colors, as the exact product of
\* the 32-bit fields when it fits 64 bits and the error DataTooLarge when it
\* does not; no build panics or wraps; the decoder and the encoder of one
\* header get the same size.  (A version 2 chunk size over 255 bytes is
\* DataTooLarge before the size is derived.)
CupsPageSizeExact ==
    ctor.status = "size" =>
        /\ ctor.dec # NotBuilt
             => SizeAsClaimed(ctor.dec, ctor.header, ctor.version)
        /\ ctor.enc # NotBuilt
             => SizeAsClaimed(ctor.enc, ctor.header, ctor.version)
        /\ (ctor.dec # NotBuilt /\ ctor.enc # NotBuilt)
             => ctor.dec = ctor.enc

\* both codecs of a version 2 planar page of 2^31 * 2^31 * 4 = 2^64 bytes were
\* asked for, a size whose low 64 bits are all zero
CupsPageSizeAtEdge ==
    /\ ctor.status = "size"
    /\ ctor.version = 2
    /\ ctor.dec # NotBuilt /\ ctor.enc # NotBuilt
    /\ ctor.header.color_order = 2
    /\ ctor.header.bytes_per_line = <<0, 0, 0, 128>>
    /\ ctor.header.height = <<0, 0, 0, 128>>
    /\ ctor.header.num_colors = U32Of(4)
    /\ ctor.dec.err = "DataTooLarge"

\* ------------------------------------------------------------------------
\* factory/urf.rs : the parameters of a page in 64-bit arithmetic
\* ------------------------------------------------------------------------
\* bit k (from 0, least significant) of x
BitOf(x, k) == (x[(k \div 8) + 1] \div (2 ^ (k % 8))) % 2

\* 2 * r + bit, in the width of r, byte after byte from the lowest
RECURSIVE ShiftInFrom(_, _, _, _)
ShiftInFrom(r, i, carry, acc) ==
    IF i > Len(r) THEN acc
    ELSE ShiftInFrom(r, i + 1, r[i] \div 128,
                     Append(acc, (2 * r[i] + carry) % 256))

ShiftIn(r, bit) == ShiftInFrom(r, 1, bit, <<>>)

\* a < b for two values of one width
LessThan(a, b) ==
    \E i \in 1..Len(a) :
        a[i] < b[i] /\ \A j \in (i + 1)..Len(a) : a[j] = b[j]

\* a - b for a >= b, byte after byte from the lowest with its borrow
RECURSIVE MinusFrom(_, _, _, _, _)
MinusFrom(a, b, i, borrow, acc) ==
    IF i > Len(a) THEN acc
    ELSE MinusFrom(a, b, i + 1, IF a[i] - b[i] - borrow < 0 THEN 1 ELSE 0,
                   Append(acc, (256 + a[i] - b[i] - borrow) % 256))

Minus(a, b) == MinusFrom(a, b, 1, 0, <<>>)

\* long division, bit after bit from the top: the remainder of x by b in
\* one byte more than b
RECURSIVE RemFrom(_, _, _, _)
RemFrom(x, b, k, r) ==
    IF k < 0 THEN r
    ELSE LET r2 == ShiftIn(r, BitOf(x, k))
         IN  IF LessThan(r2, b) THEN RemFrom(x, b, k - 1, r2)
             ELSE RemFrom(x, b, k - 1, Minus(r2, b))

\* `x % b` for two u64, b not 0
RemU64(x, b) ==
    SubSeq(RemFrom(x, Append(b, 0), 8 * Len(x) - 1, Zeros(Len(b) + 1)), 1, 8)

IsZero(x) == IsZeroFrom(x, 1)

\* the layout checks of CompressedRasterDecoder::new and of
\* CompressedRasterEncoder::new on u64 values
LayoutErrorU64(chunk_size, bytes_per_line, num_bytes) ==
    \/ (~IsZero(bytes_per_line)
          /\ (chunk_size = 0
                \/ ~IsZero(RemU64(bytes_per_line, AsU64(U32Of(chunk_size))))))
    \/ (~IsZero(num_bytes)
          /\ (IsZero(bytes_per_line)
                \/ ~IsZero(RemU64(num_bytes, bytes_per_line))))

\* a chunk size that rounds up, as the CUPS factories do
UrfChunkSize_RoundsUp(bits_per_pixel) == (bits_per_pixel + 7) \div 8

\* `let chunk_size = header.bits_per_pixel / 8;`
UrfChunkSize(bits_per_pixel) == bits_per_pixel \div 8

\* what the URF factory hands to the constructor of its codec and what the
\* constructor's layout checks say, or the factory's error
UrfSizeResult(err, chunk_size, bytes_per_line, num_bytes) ==
    [err |-> err, chunk_size |-> chunk_size, bytes_per_line |-> bytes_per_line,
     num_bytes |-> num_bytes]

\* the three `let` of UrfPageFactory::decode and ::encode; `*` on two u64
\* panics on overflow when the build checks overflow and wraps otherwise
UrfParams(h, checks) ==
    LET chunk_size == UrfChunkSize(h.bits_per_pixel)
        line == MulU64(AsU64(h.width), AsU64(U32Of(chunk_size)))
        area == MulU64(AsU64(h.width), AsU64(h.height))
        all == checked_mul(area.val, AsU64(U32Of(chunk_size)))
    IN  IF (line.overflow \/ area.overflow) /\ checks
        THEN UrfSizeResult("Panic", 0, AsU64(<<>>), AsU64(<<>>))
        ELSE IF ~all.some
        THEN UrfSizeResult("DataTooLarge", 0, AsU64(<<>>), AsU64(<<>>))
        ELSE UrfSizeResult("none", chunk_size, line.val, all.val)

\* UrfPageFactory::decode up to the allocation of the line buffer:
\* CompressedRasterDecoder::new checks the limits (none here) and the layout
UrfSizeDecode(h, checks) ==
    LET p == UrfParams(h, checks)
    IN  IF p.err # "none" THEN p
        ELSE IF LayoutErrorU64(p.chunk_size, p.bytes_per_line, p.num_bytes)
        THEN [p EXCEPT !.err = "InvalidData"]
        ELSE p

\* UrfPageFactory::encode up to the allocation of the line buffer
UrfSizeEncode(h, checks) ==
    LET p == UrfParams(h, checks)
    IN  IF p.err # "none" THEN p
        ELSE IF LayoutErrorU64(p.chunk_size, p.bytes_per_line, p.num_bytes)
        THEN [p EXCEPT !.err = "InvalidData"]
        ELSE p

\* widths and heights at the edges: 0, 1, 3, 2^16, 2^31, 2^32 - 1; pixels
\* of no byte (0, 1, 7 bits), of 1, 3 and 4 bytes, and the widest (255 bits)
UrfSizeHeaders ==
    [bits_per_pixel : {0, 1, 7, 8, 24, 32, 255},
     width : SizeWords, height : SizeWords]

UrfSizeInit ==
    /\ \E h \in UrfSizeHeaders, checks \in BOOLEAN :
          ctor = [status |-> "urfsize", header |-> h, checks |-> checks,
                  dec |-> NotBuilt, enc |-> NotBuilt]
    /\ dec = Idle /\ enc = Idle /\ rdr = Idle /\ wtr = Idle

UrfSizeDecoder ==
    /\ ctor.dec = NotBuilt
    /\ ctor' = [ctor EXCEPT !.dec = UrfSizeDecode(ctor.header, ctor.checks)]
    /\ UNCHANGED <<dec, enc, rdr, wtr>>

UrfSizeEncoder ==
    /\ ctor.enc = NotBuilt
    /\ ctor' = [ctor EXCEPT !.enc = UrfSizeEncode(ctor.header, ctor.checks)]
    /\ UNCHANGED <<dec, enc, rdr, wtr>>

UrfSizeNext == UrfSizeDecoder \/ UrfSizeEncoder

SpecUrfSize == UrfSizeInit /\ [][UrfSizeNext]_vars

\* r is what the claim allows for header h: the chunk size is
\* bits_per_pixel / 8, the line is width * chunk_size, the page is
\* width * height * chunk_size in full (12 bytes) when that fits 64 bits and
\* DataTooLarge when not, and no layout check rejects it
UrfSizeAsClaimed(r, h) ==
    LET chunk == U32Of(h.bits_per_pixel \div 8)
        line == Product(h.width, chunk)
        page == Product(Product(h.width, h.height), chunk)
    IN  IF IsZeroFrom(page, 9)
        THEN /\ r.err = "none"
             /\ r.chunk_size = h.bits_per_pixel \div 8
             /\ r.bytes_per_line = SubSeq(line, 1, 8)
             /\ r.num_bytes = SubSeq(page, 1, 8)
             /\ (h.bits_per_pixel < 8 =>
                   r.chunk_size = 0 /\ IsZero(r.num_bytes))
        ELSE r.err = "DataTooLarge"

\* C31: URF parameter derivation.  Decode and encode both use chunk_size =
\* bits_per_pixel / 8 (0 below 8 bits, with an empty page body),
\* bytes_per_line = width * chunk_size and total_bytes = width * height *
\* chunk_size, with DataTooLarge when the product does not fit 64 bits; the
\* triple passes the layout checks of the codec constructors.
UrfParamsDerived ==
    ctor.status = "urfsize" =>
        /\ ctor.dec # NotBuilt => UrfSizeAsClaimed(ctor.dec, ctor.header)
        /\ ctor.enc # NotBuilt => UrfSizeAsClaimed(ctor.enc, ctor.header)

\* both codecs of a page of (2^32 - 1) x (2^32 - 1) pixels of 1 byte were
\* built, a page of 2^64 - 2^33 + 1 bytes whose lines the layout check
\* divides
UrfWidestPageBuilt ==
    /\ ctor.status = "urfsize"
    /\ ctor.dec # NotBuilt /\ ctor.enc # NotBuilt
    /\ ctor.header.bits_per_pixel = 8
    /\ ctor.header.width = <<255, 255, 255, 255>>
    /\ ctor.header.height = <<255, 255, 255, 255>>
    /\ ctor.dec.err = "none"
    /\ ctor.dec.num_bytes = <<1, 0, 0, 0, 254, 255, 255, 255>>

\* ------------------------------------------------------------------------
\* factory/cups.rs : the layout check of a page header, and the decoder of
\* the header that passed it
\* ------------------------------------------------------------------------
\* the bytes of a header with the fields of x, all else 0; bad_v1 spoils a
\* field before the layout check (a jog of 9, a media_class that is not
\* UTF-8), bad_v2 one after it (marker_type)
LayoutContent(x) ==
    SubSeq(
    Patch(Zeros(CUPS_V2_HEADER_SIZE),
          << <<376, WriteU32(x.order, x.height)>>,
             <<384, WriteU32(x.order, x.bits_per_color)>>,
             <<388, WriteU32(x.order, x.bits_per_pixel)>>,
             <<392, WriteU32(x.order, x.bytes_per_line)>>,
             <<396, WriteU32(x.order, x.color_order)>>,
             <<420, WriteU32(x.order, x.num_colors)>>,
             <<304, WriteU32(x.order, IF x.bad_v1 = "jog" THEN 9 ELSE 0)>>,
             <<0, IF x.bad_v1 = "media_class" THEN <<255>> ELSE <<65>> >>,
             <<1604, IF x.bad_v2 THEN <<255>> ELSE <<65>> >> >>),
    1, CUPS_V2_HEADER_SIZE)

\* pixels of 0, 2 and 256 bytes, colors of 2 and 256 bytes, lines of 0, 3, 4
\* and 512 bytes, the three color orders and a fourth that is none
LayoutInputs ==
    [order : {"BE", "LE"}, color_order : 0..3,
     bits_per_pixel : {0, 9, 2041}, bits_per_color : {16, 2041},
     bytes_per_line : {0, 3, 4, 512}, height : {0, 2},
     num_colors : {0},
     bad_v1 : {"none", "jog", "media_class"}, bad_v2 : BOOLEAN]

NotParsed == [err |-> "unparsed", header |-> NoCupsHeader]

NotDecoded == [err |-> "undecoded", dec |-> NoDecoder]

LayoutInit ==
    /\ \E x \in LayoutInputs :
          rdr = [status |-> "layout", x |-> x, parsed |-> NotParsed,
                 decoded |-> NotDecoded]
    /\ dec = Idle /\ enc = Idle /\ wtr = Idle /\ ctor = Idle

\* CupsPageFactoryV2::header_from_bytes on the 1796 bytes
LayoutParse ==
    /\ rdr.parsed = NotParsed
    /\ rdr' = [rdr EXCEPT !.parsed =
                  CupsHeaderFromBytes(rdr.x.order, LayoutContent(rdr.x))]
    /\ UNCHANGED <<dec, enc, wtr, ctor>>

\* CupsPageFactoryV2::decode of the header that was parsed
LayoutDecode ==
    /\ rdr.parsed.err = "none"
    /\ rdr.decoded = NotDecoded
    /\ \E g \in Garbage :
          rdr' = [rdr EXCEPT !.decoded =
                     CupsDecode(rdr.parsed.header, NO_LIMITS, g)]
    /\ UNCHANGED <<dec, enc, wtr, ctor>>

LayoutNext == LayoutParse \/ LayoutDecode

SpecLayout == LayoutInit /\ [][LayoutNext]_vars

\* ceil(bits / 8) of the bits the color order names
LayoutChunkBytes(x) ==
    IF x.color_order = 0 THEN (x.bits_per_pixel + 7) \div 8
    ELSE (x.bits_per_color + 7) \div 8

\* bytes_per_line is not 0 and not a multiple of max(1, chunk bytes)
LayoutOffChunk(x) ==
    LET chunk_size == IF LayoutChunkBytes(x) < 1 THEN 1 ELSE LayoutChunkBytes(x)
    IN  x.bytes_per_line # 0 /\ x.bytes_per_line % chunk_size # 0

\* the fields ahead of the layout check all read
LayoutFieldsRead(x) == x.bad_v1 = "none" /\ x.color_order \in 0..2

CupsColorSpaceNames ==
    <<"Gray", "RGB", "RGBA", "Black", "CMY", "YMC", "CMYK", "YMCK", "KCMY",
      "KCMYcm", "GMCK", "GMCS", "White", "Gold", "Silver", "CIEXYZ", "CIELab",
      "RGBW", "sGray", "sRGB", "AdobeRGB">>

UrfColorSpaceNames ==
    <<"sGray", "sRGB", "CIELab", "AdobeRGB", "Gray", "RGB", "CMYK">>

ColorSpaceName(kind, v) ==
    IF kind = "urf" THEN UrfColorSpaceNames[v + 1]
    ELSE IF v < Len(CupsColorSpaceNames) THEN CupsColorSpaceNames[v + 1]
    ELSE IF v < 48 THEN "Icc" ELSE "Device"

\* the 32 bytes of a URF page of 2 x 2 pixels of bits_per_pixel bits, and
\* the 1796 bytes of a CUPS page of 2 x 2 pixels of one byte
FillHeaderBytes(x) ==
    IF x.kind = "urf"
    THEN RawUrfHeader(x.bits_per_pixel, x.color_space, 1, 2, 2, 0)
    ELSE SubSeq(Patch(RawCupsChunky(x.order),
                      << <<400, WriteU32(x.order, x.color_space)>> >>),
                1, CUPS_V2_HEADER_SIZE)

FillFactory(x) ==
    IF x.kind = "urf" THEN UrfPageFactory ELSE CupsPageFactoryV2(x.order)

FillInputs ==
    [kind : {"urf"}, order : {"BE"}, bits_per_pixel : {8, 24},
     color_space : UrfColorSpaces]
    \cup [kind : {"cups"}, order : {"BE", "LE"}, bits_per_pixel : {8},
          color_space : CupsColorSpaces]

\* a body of two lines that hold no pixel: the first line is one fill block,
\* the second repeats it
BodyBlank == <<1, 128>>

FillInit ==
    /\ \E x \in FillInputs :
          dec = [status |-> "fill", x |-> x, header_err |-> "unparsed",
                 d |-> NoDecoder, sink |-> <<>>, read |-> "unread"]
    /\ enc = Idle /\ rdr = Idle /\ wtr = Idle /\ ctor = Idle

\* header_from_bytes and decode of the factory
FillDecode ==
    /\ dec.header_err = "unparsed"
    /\ \E g \in Garbage :
          LET F == FillFactory(dec.x)
              h == header_from_bytes(F, FillHeaderBytes(dec.x))
          IN  dec' = [dec EXCEPT
                         !.header_err = h.err,
                         !.d = IF h.err = "none"
                               THEN decode(F, h.header, NO_LIMITS, g).dec
                               ELSE NoDecoder]
    /\ UNCHANGED <<enc, rdr, wtr, ctor>>

\* the page is read from a body that holds no pixel
FillRead ==
    /\ dec.header_err = "none"
    /\ dec.read = "unread"
    /\ LET r == DecReadToEnd(dec.d, BodyBlank, 0, <<>>)
       IN  dec' = [dec EXCEPT !.d = r.d, !.sink = r.sink, !.read = r.status]
    /\ UNCHANGED <<enc, rdr, wtr, ctor>>

FillNext == FillDecode \/ FillRead

SpecFill == FillInit /\ [][FillNext]_vars

\* the color spaces the claim names for a format
FillWhite(kind) ==
    IF kind = "urf"
    THEN {"sGray", "sRGB", "CIELab", "AdobeRGB", "Gray", "RGB"}
    ELSE {"sGray", "sRGB", "CIELab", "AdobeRGB", "Gray", "RGB", "RGBA", "RGBW"}

FillClaimed(x) ==
    IF ColorSpaceName(x.kind, x.color_space) \in FillWhite(x.kind) THEN 255
    ELSE 0

\* C33: fill byte selection.  The decoder built from a header has fill_byte
\* 0xFF exactly when the color space is sGray, sRGB, CIELab, AdobeRGB, Gray,
\* RGB, RGBA or RGBW for CUPS V2, or sGray, sRGB, CIELab, AdobeRGB, Gray or
\* RGB for URF, and 0x00 for every other color space; a page read from fill
\* blocks alone holds that byte everywhere.
FillByteSelected ==
    dec.status = "fill" =>
        /\ dec.header_err \in {"unparsed", "none"}
        /\ dec.header_err = "none" =>
              /\ dec.d.fill_byte = FillClaimed(dec.x)
              /\ dec.read # "unread" =>
                    /\ dec.read = "eof"
                    /\ Len(dec.sink) = dec.d.bytes_per_line * 2
                    /\ \A i \in 1..Len(dec.sink) :
                          dec.sink[i] = FillClaimed(dec.x)

\* a CUPS page in RGBW, a color space URF does not have, was read white
FillWhiteRead ==
    /\ dec.status = "fill"
    /\ dec.read = "eof"
    /\ dec.x.kind = "cups"
    /\ ColorSpaceName("cups", dec.x.color_space) = "RGBW"
    /\ dec.sink = <<255, 255, 255, 255>>

\* ------------------------------------------------------------------------
\* next_page on a page writer (SpecWriter)
\* ------------------------------------------------------------------------
\* the step is the first poll of page_writer.next_page(header)
IsPageNextPage == wtr.pc = "page" /\ wtr'.op = "page_next_page"

\* C34: next_page on a page writer whose encoder still has bytes_remaining
\* > 0 resolves to an error and writes no byte to the transport; the header
\* of the next page is written only when the bytes_remaining of the current
\* page is 0, in the first poll of next_page and in every later one.
NextPageNeedsWholePage ==
    /\ [][IsPageNextPage =>
             /\ wtr.e.bytes_remaining > 0 =>
                   /\ wtr'.pc = "failed"
                   /\ wtr'.err = "Other"
                   /\ wtr'.out = wtr.out
                   /\ wtr'.pages = wtr.pages
             /\ wtr'.out # wtr.out => wtr.e.bytes_remaining = 0
             /\ wtr'.pc \in {"for", "page"} => wtr.e.bytes_remaining = 0]_vars
    /\ []((wtr.pc = "for" /\ wtr.pages > 0) => wtr.e.bytes_remaining = 0)

\* next_page in the middle of a page failed, with part of the page written
\* and the rest of it missing
NextPageRefusedMidPage ==
    /\ wtr.op = "page_next_page"
    /\ wtr.pc = "failed"
    /\ wtr.err = "Other"
    /\ wtr.written > 0
    /\ wtr.e.bytes_remaining > 0
    /\ wtr.pages < Len(wtr.doc)

\* ------------------------------------------------------------------------
\* The encoder at the end of a call and at the end of a page (SpecCodec)
\* ------------------------------------------------------------------------
\* the last poll_write returned Poll::Ready(Ok(n)), or none was made yet
EncReturnedReady ==
    /\ enc.status \in {"writing", "closed"} \/ enc.err = "WriteZero"
    /\ enc.offered = 0

\* C35: nothing is withheld at the completion of a page.  After every
\* poll_write that returns Ready(Ok) the flush state is None, and when it
\* leaves bytes_remaining == 0 also line_repeat is None and the bytes the
\* transport has received are whole line groups that stand for every byte
\* of the page.
NothingWithheld ==
    EncReturnedReady =>
        /\ enc.e.fstate = "None"
        /\ enc.e.bytes_remaining = 0 =>
              /\ enc.e.line_repeat = None
              /\ EncRef.ok
              /\ RefBytes(EncRef.groups) = enc.src

\* C35 witness: the last write of a page of three lines, the last unlike the
\* two equal ones before it, returned Ready with nothing left to write; the
\* transport holds the group of the two lines and the group of the last
LastLineHandedOver ==
    /\ enc.status = "writing"
    /\ enc.offered = 0
    /\ enc.written = 3
    /\ enc.bytes_per_line = 1
    /\ enc.src = <<0, 0, 128>>
    /\ enc.e.bytes_remaining = 0
    /\ enc.out = <<1, 0, 0, 0, 0, 128>>

\* ------------------------------------------------------------------------
\* The encoder and the way its caller splits the page (SpecCodec)
\* ------------------------------------------------------------------------
\* one more call of a caller that writes the page n bytes a call over the
\* unrestricted transport
EncWriteByStep(s, src, n) ==
    IF s.status # "writing" \/ s.written = Len(src) THEN s
    ELSE LET r == EncPollWrite(s.e, s.out,
                      SubSeq(src, s.written + 1, Min(Len(src), s.written + n)),
                      NoPend)
         IN  [e |-> r.e, out |-> r.out,
              written |-> IF r.res = "Ok" THEN s.written + r.n ELSE s.written,
              status |-> IF r.res = "Ok" /\ r.n > 0 THEN "writing"
                         ELSE IF r.res = "Ok" THEN "WriteZero" ELSE r.res]

\* calls of that caller, one after the other
RECURSIVE EncWriteByCalls(_, _, _, _)
EncWriteByCalls(s, src, n, calls) ==
    IF calls <= 1 THEN EncWriteByStep(s, src, n)
    ELSE LET mid == EncWriteByCalls(s, src, n, calls \div 2)
         IN  IF mid.status # "writing" THEN mid
             ELSE EncWriteByCalls(mid, src, n, calls - (calls \div 2))

\* the page written n bytes a call: every call takes a byte or ends the
\* writing, so Len(src) calls are enough
EncWriteBy(e, src, n) ==
    EncWriteByCalls([e |-> e, out |-> <<>>, written |-> 0, status |-> "writing"],
                    src, n, Len(src) + 1)

\* C36: the output of the encoder does not depend on the split of the
\* input.  Whatever buffers the caller has split the page into, the
\* transport has received a prefix of the bytes it receives from one write
\* of the whole page, and all of them once the page is written; the page
\* written one byte a call, and MaxBuf bytes a call, gives the same bytes.
SplitIndependent ==
    LET ref == EncReference
    IN  /\ IsPrefix(enc.out, ref.out)
        /\ (enc.status = "writing" /\ enc.written = Len(enc.src)) =>
              /\ enc.out = ref.out
              /\ \A n \in 1..MaxBuf :
                    /\ EncWriteBy(enc.e0, enc.src, n).status = "writing"
                    /\ EncWriteBy(enc.e0, enc.src, n).written = Len(enc.src)
                    /\ EncWriteBy(enc.e0, enc.src, n).out = enc.out

\* C36 witness: a write ended inside the second line of a page while that
\* line was being compared with the withheld first line, of which nothing
\* has been handed to the transport yet
SplitInsideComparedLine ==
    /\ enc.status = "writing"
    /\ enc.offered = 0
    /\ enc.written = 3
    /\ enc.bytes_per_line = 2
    /\ enc.src = <<0, 128, 0, 0>>
    /\ enc.e.line_repeat = 0
    /\ enc.e.pos_in_line = 1
    /\ enc.out = <<>>

\* ------------------------------------------------------------------------
\* The decoder and the sizes of the buffers of its caller (SpecDec)
\* ------------------------------------------------------------------------
\* the input read over the unrestricted transport with buffers of b bytes
\* until a read returns 0 or fails
RECURSIVE DecReadBy(_, _, _, _, _)
DecReadBy(d, data, pos, sink, b) ==
    LET r == DecPollRead(d, data, pos, b, NoPend)
    IN  IF r.res = "Ok" /\ r.n > 0
        THEN DecReadBy(r.dec, data, r.pos, sink \o r.bytes, b)
        ELSE [d |-> r.dec, pos |-> r.pos, sink |-> sink,
              status |-> IF r.res = "Ok" THEN "eof" ELSE r.res]

\* C37: the output of the decoder does not depend on the sizes of the
\* buffers.  Whatever non-empty buffers the caller has passed, the bytes
\* delivered are a prefix of those delivered to the scratch buffer, and
\* when bytes_remaining has reached 0 the delivered bytes and the transport
\* cursor are those of the reading with the scratch buffer, and of the
\* readings with buffers of 1..MaxBuf bytes.
BufferIndependent ==
    LET ref == DecReference
    IN  /\ IsPrefix(dec.sink, ref.sink)
        /\ (dec.status \in {"open", "eof"} /\ dec.d.bytes_remaining = 0) =>
              /\ ref.status = "eof"
              /\ dec.sink = ref.sink
              /\ dec.pos = ref.pos
              /\ \A b \in 1..MaxBuf :
                    LET by == DecReadBy(dec.d0, dec.data, 0, <<>>, b)
                    IN  /\ by.status = "eof"
                        /\ by.sink = dec.sink
                        /\ by.pos = dec.pos

\* C37 witness: a page of two equal lines, each one run of two pixels, was
\* delivered to its last byte through buffers too short for what the
\* decoder had ready, and the read that delivered the last byte has returned
ShortBuffersSamePage ==
    /\ dec.status = "open"
    /\ dec.staged
    /\ dec.d.bytes_remaining = 0
    /\ Len(dec.d.line_buffer) = 2
    /\ dec.data = <<1, 1, 0>>
    /\ dec.sink = <<0, 0, 0, 0>>
    /\ dec.pos = 3

\* ------------------------------------------------------------------------
\* A page followed by other bytes on the same transport: the page is
\* written, then a decoder with the parameters of the page is opened over
\* the written bytes and what follows them, and read or drained
\* ------------------------------------------------------------------------
\* what follows the page: the first byte of a CUPS sync word, and bytes
\* that read as further line groups of the page
Suffixes == {<<82>>, <<0, 0, 0>>}

\* the pages of less than MaxSrc bytes, nothing written yet
SuffixInit ==
    /\ CodecInit
    /\ Len(enc.src) < MaxSrc

SuffixOpen(suffix) ==
    /\ enc.status = "closed"
    /\ dec = Idle
    /\ \E g \in Garbage :
         LET p == [chunk_size |-> enc.chunk_size,
                   bytes_per_line |-> enc.bytes_per_line,
                   num_bytes |-> Len(enc.src), fill_byte |-> 0]
         IN  dec' = [d |-> NewDecoderOf(p, g), d0 |-> NewDecoderOf(p, g),
                     data |-> enc.out \o suffix, suffix |-> suffix,
                     pos |-> 0, sink |-> <<>>,
                     status |-> "open", err |-> "none",
                     pended |-> FALSE, midblock |-> FALSE, dropped |-> FALSE,
                     waited |-> FALSE, early |-> FALSE, staged |-> FALSE,
                     eof |-> FALSE]
    /\ UNCHANGED <<enc, rdr, wtr, ctor>>

\* the caller drops the rest of the page: RasterDecoderExt::consume, polled
\* once
SuffixConsume(sc) ==
    /\ dec.status = "open"
    /\ LET r == ConsumePoll(dec.d, dec.data, dec.pos, sc)
       IN  dec' = [dec EXCEPT !.d = r.d,
                              !.pos = r.pos,
                              !.status = IF r.res = "Pending" THEN "open"
                                         ELSE IF r.res = "Ok" THEN "consumed"
                                         ELSE IF r.res = "Err" THEN "err"
                                         ELSE IF r.res = "Panic" THEN "panic"
                                         ELSE "hang",
                              !.err = r.err,
                              !.pended = @ \/ r.res = "Pending"]
    /\ UNCHANGED <<enc, rdr, wtr, ctor>>

SuffixNext ==
    \/ EncWrite(Len(enc.src) - enc.written, NoPend)
    \/ EncClose
    \/ \E suffix \in Suffixes : SuffixOpen(suffix)
    \/ \E b \in {1, ScratchLen}, sc \in Scripts : DecRead(b, sc)
    \/ \E sc \in Scripts : SuffixConsume(sc)

SpecSuffix == SuffixInit /\ [][SuffixNext]_vars

\* C38: the decoder consumes exactly the encoding of the page.  Over the
\* bytes the encoder wrote for a page followed by any suffix, no read and
\* no drain fails or takes a byte of the suffix from the transport, and in
\* every state with bytes_remaining == 0 the transport cursor is the length
\* of the encoding of the page, the whole suffix still to be read; a drain
\* that returns the transport leaves bytes_remaining == 0.
ConsumesExactlyThePage ==
    dec.status # "idle" =>
        /\ dec.status \in {"open", "eof", "consumed"}
        /\ dec.pos <= Len(enc.out)
        /\ dec.status \in {"eof", "consumed"} => dec.d.bytes_remaining = 0
        /\ dec.d.bytes_remaining = 0 =>
              /\ dec.pos = Len(enc.out)
              /\ SubSeq(dec.data, dec.pos + 1, Len(dec.data)) = dec.suffix

\* C38 witness: a page of two unequal lines was read to its last byte with
\* bytes after it that read as one more line group, and a further read
\* returned 0
SuffixLeftUnread ==
    /\ dec.status = "eof"
    /\ dec.suffix = <<0, 0, 0>>
    /\ enc.bytes_per_line = 1
    /\ enc.src = <<0, 128>>
    /\ dec.sink = <<0, 128>>
    /\ dec.pos = 6
    /\ Len(dec.data) = 9

\* ------------------------------------------------------------------------
\* The count of the bytes the encoder still takes (SpecUse)
\* ------------------------------------------------------------------------
\* the step is a poll_write that returned Poll::Ready(Ok(n))
IsWriteReady == enc' # enc /\ enc'.last.op = "write" /\ enc'.last.res = "Ok"

\* C39: byte accounting of the encoder.  A write that returns Ready(Ok(n))
\* takes n <= bytes_remaining bytes and leaves bytes_remaining smaller by
\* n, and no other call changes bytes_remaining, so that it is always the
\* total less the sum of the returned counts; a write made with
\* bytes_remaining == 0 returns Ok(0) and hands nothing to the transport.
EncoderAccounting ==
    /\ [][enc.status = "open" =>
            /\ IsWriteReady =>
                  /\ enc'.last.n <= enc.e.bytes_remaining
                  /\ enc'.last.n <= enc'.last.len
                  /\ enc'.e.bytes_remaining
                        = enc.e.bytes_remaining - enc'.last.n
            /\ ~IsWriteReady =>
                  enc'.e.bytes_remaining = enc.e.bytes_remaining
            /\ (enc.e.bytes_remaining = 0 /\ enc'.last.op = "write") =>
                  /\ enc'.last.res = "Ok"
                  /\ enc'.last.n = 0
                  /\ enc'.out = enc.out]_vars
    /\ [](enc.status # "idle" =>
             /\ enc.e.bytes_remaining <= enc.shape.num_bytes
             /\ enc.status \in {"open", "closed"})

\* C39 witness: a page of four bytes was written whole, and a further write
\* of two bytes returned Ok(0)
WriteAfterLastByte ==
    /\ enc.status = "open"
    /\ enc.shape.num_bytes = 4
    /\ enc.e.bytes_remaining = 0
    /\ enc.last = [op |-> "write", len |-> 2, res |-> "Ok", n |-> 0]
    /\ Len(enc.out) > 2

\* ------------------------------------------------------------------------
\* Progress of a decoder and of a reader that are polled again and again
\* over a transport that becomes ready again after every Pending
\* ------------------------------------------------------------------------
\* the calls whose first poll of the transport is answered Ready
ReadyFirst == {sc \in Scripts : sc.pend # 1}

\* the input is a page in the wire format: whole line groups that make
\* total_bytes bytes
WholePage == DecRef.ok /\ Len(RefBytes(DecRef.groups)) = DecTotal

\* a decoder over a well-formed page, or a reader over a file; ready tells
\* that the transport has become ready since the last call, polled changes
\* at every call of poll_read on the decoder and at every poll of a future
\* of next_page
LiveInit ==
    \/ /\ \E p \in DecParams, data \in SeqsUpTo(InBytes, MaxIn), g \in Garbage :
             dec = [d |-> NewDecoderOf(p, g), d0 |-> NewDecoderOf(p, g),
                    data |-> data, pos |-> 0, sink |-> <<>>,
                    status |-> "open", err |-> "none",
                    pended |-> FALSE, midblock |-> FALSE, dropped |-> FALSE,
                    waited |-> FALSE, early |-> FALSE, staged |-> FALSE,
                    eof |-> FALSE, ready |-> FALSE, polled |-> 0]
       /\ WholePage
       /\ enc = Idle /\ rdr = Idle /\ wtr = Idle /\ ctor = Idle
    \/ /\ \E file \in UrfFiles :
            LET r == UrfReaderNew(file)
            IN  /\ r.err = "none"
                /\ rdr = [fac |-> UrfPageFactory,
                          file |-> file, pos |-> r.pos, limits |-> NO_LIMITS,
                          phase |-> "for", err |-> "none",
                          buffer |-> Zeros(URF_HEADER_SIZE), start |-> 0,
                          header |-> NoHeader, d |-> NoDecoder,
                          sink |-> <<>>, pages |-> 0,
                          hdr_eof |-> -1, drain_eof |-> FALSE,
                          d0 |-> NoDecoder, body_from |-> -1,
                          prev |-> NoPrev, ready |-> FALSE, polled |-> 0]
       /\ dec = Idle /\ enc = Idle /\ wtr = Idle /\ ctor = Idle

\* the transport becomes ready and wakes the task that was given Pending
\* (the Waker of the Context passed to the transport's poll_read)
LiveWake ==
    \/ /\ dec # Idle
       /\ dec.status = "open"
       /\ ~dec.ready
       /\ dec' = [dec EXCEPT !.ready = TRUE]
       /\ UNCHANGED <<enc, rdr, wtr, ctor>>
    \/ /\ rdr # Idle
       /\ rdr.phase \in {"for", "page", "next"}
       /\ ~rdr.ready
       /\ rdr' = [rdr EXCEPT !.ready = TRUE]
       /\ UNCHANGED <<dec, enc, wtr, ctor>>

\* poll_read of the decoder: a transport that has become ready answers the
\* first poll of the call; what it does after the call is not known
LiveRead(b, sc) ==
    /\ dec # Idle
    /\ dec.status = "open"
    /\ dec.ready => sc \in ReadyFirst
    /\ dec' = [DecAfter(dec, DecPollRead(dec.d, dec.data, dec.pos, b, sc))
                  EXCEPT !.ready = FALSE, !.polled = 1 - @]
    /\ UNCHANGED <<enc, rdr, wtr, ctor>>

\* a poll of the future that reads a page header
LivePollFor(sc) ==
    /\ rdr # Idle
    /\ rdr.phase = "for"
    /\ rdr.ready => sc \in ReadyFirst
    /\ \E g \in Garbage :
         rdr' = [AfterFor(rdr, ForPoll(rdr.fac, rdr.buffer, rdr.start,
                                       rdr.file, rdr.pos, rdr.limits, g, sc, 0))
                    EXCEPT !.ready = FALSE, !.polled = 1 - @]
    /\ UNCHANGED <<dec, enc, wtr, ctor>>

\* the caller reads the content of the page with a buffer of b bytes
LivePageRead(b, sc) ==
    /\ rdr # Idle
    /\ rdr.phase = "page"
    /\ rdr.ready => sc \in ReadyFirst
    /\ rdr' = [AfterRead(rdr, DecPollRead(rdr.d, rdr.file, rdr.pos, b, sc))
                  EXCEPT !.ready = FALSE]
    /\ UNCHANGED <<dec, enc, wtr, ctor>>

\* next_page() on the page
LivePageNextPage ==
    /\ rdr # Idle
    /\ rdr.phase = "page"
    /\ rdr' = [rdr EXCEPT !.phase = "next"]
    /\ UNCHANGED <<dec, enc, wtr, ctor>>

\* a poll of the future that drains the page and reads the next header
LivePollNext(sc) ==
    /\ rdr # Idle
    /\ rdr.phase = "next"
    /\ rdr.ready => sc \in ReadyFirst
    /\ \E g \in Garbage :
         rdr' = [AfterConsume(rdr, ConsumePoll(rdr.d, rdr.file, rdr.pos, sc),
                              sc, g)
                    EXCEPT !.ready = FALSE, !.polled = 1 - @]
    /\ UNCHANGED <<dec, enc, wtr, ctor>>

LiveNext ==
    \/ LiveWake
    \/ \E b \in BufLens, sc \in Scripts : LiveRead(b, sc)
    \/ \E sc \in Scripts : LivePollFor(sc)
    \/ \E b \in BufLens, sc \in Scripts : LivePageRead(b, sc)
    \/ LivePageNextPage
    \/ \E sc \in Scripts : LivePollNext(sc)

\* the decoder is read again as long as it has not returned 0 or failed
ReadAgain ==
    \/ []<>(dec = Idle \/ dec.status # "open")
    \/ []<><<dec # Idle /\ dec'.polled # dec.polled>>_vars

\* the future of next_page is being polled
NextPageUnresolved == rdr # Idle /\ rdr.phase \in {"for", "next"}

\* it resolved: a page, no more pages, or an error
NextPageResolved == rdr # Idle /\ rdr.phase \in {"page", "none", "err"}

\* the future of next_page is polled again as long as it has not resolved
PolledAgain ==
    \/ []<>(~NextPageUnresolved)
    \/ []<><<NextPageUnresolved /\ rdr'.polled # rdr.polled>>_vars

\* the transport becomes ready after every Pending, and the caller goes on
\* calling
SpecLive ==
    LiveInit /\ [][LiveNext]_vars /\ WF_vars(LiveWake) /\ ReadAgain /\ PolledAgain

\* C40: progress.  Over a transport that becomes ready again after every
\* Pending, a decoder of a well-formed page that is read again and again
\* gets to bytes_remaining == 0, and a future of next_page that is polled
\* again and again resolves to a page, to no more pages or to an error; no
\* call of poll_read or of the futures loops for ever or fails on the way.
Progress ==
    /\ [](dec # Idle => dec.status \in {"open", "eof"})
    /\ [](rdr # Idle => rdr.phase \notin {"hang", "panic"})
    /\ (dec # Idle) ~> (dec # Idle /\ dec.d.bytes_remaining = 0)
    /\ NextPageUnresolved ~> NextPageResolved

\* C40 witness: a page of two lines was read to bytes_remaining == 0 in
\* calls of which some returned Pending and some left bytes of a block for
\* the next, and the read after the last byte returned 0
ProgressToLastByte ==
    /\ dec # Idle
    /\ dec.status = "eof"
    /\ dec.pended
    /\ dec.staged
    /\ dec.d.bytes_remaining = 0
    /\ Len(dec.sink) = 4
    /\ dec.pos = Len(dec.data)

====
